---- MODULE Spec2Model ----
(***************************************************************************)
(* Escrow settlement, reconciliation and monitoring of the Hillside API.   *)
(*                                                                         *)
(* Three specifications share the booking store and the chain:             *)
(*   SpecRecon    the reconciliation engine and the listing endpoint       *)
(*                applied to every bounded store / chain / fault input;    *)
(*   Spec         the reconciliation monitor: scheduler loop, manual       *)
(*                "run now" requests, status reads, startup and shutdown;  *)
(*   SpecEscrow   the booking handlers that touch a booking's escrow       *)
(*                record: creation, check-in, cancellation, shadow cleanup.*)
(***************************************************************************)
EXTENDS Integers, Sequences, FiniteSets, TLC

(***************************************************************************)
(* Bounds of the model.                                                    *)
(***************************************************************************)
MaxBookings == 2
MaxLimit == 2
MaxOffset == 1
MaxRuns == 2
MaxManual == 1

Bookings == 1..MaxBookings

(***************************************************************************)
(* Nullable columns: a column is the empty set (SQL NULL / Python None) or *)
(* a singleton holding its value.                                          *)
(***************************************************************************)
Null == {}
Some(v) == {v}
IsNull(x) == x = {}
Val(x) == CHOOSE v \in x : TRUE

(***************************************************************************)
(* Chain registry (core/chains.py).                                        *)
(***************************************************************************)
ChainKeys == {"sepolia", "amoy"}
ChainIdSepolia == 11155111
ChainIdAmoy == 80002

\* get_chain_registry: one ChainConfig per key, enabled iff the key is
\* in the allow-list; cfg carries the environment-derived settings.
get_chain_registry(cfg) ==
  [k \in ChainKeys |->
     [key |-> k,
      chain_id |-> IF k = "sepolia" THEN ChainIdSepolia ELSE ChainIdAmoy,
      rpc_url |-> cfg.rpc[k],
      escrow_contract_address |-> cfg.contract[k],
      signer_private_key |-> cfg.signer[k],
      enabled |-> k \in cfg.allowed]]

\* get_active_chain: the configured key when it is in the registry,
\* else the "sepolia" fallback.
get_active_chain(cfg) ==
  IF cfg.active \in DOMAIN get_chain_registry(cfg)
    THEN get_chain_registry(cfg)[cfg.active]
    ELSE get_chain_registry(cfg)["sepolia"]

(***************************************************************************)
(* Booking rows (the escrow columns of table reservations).                *)
(***************************************************************************)
LocalStates == {"none", "pending_lock", "locked", "released", "refunded", "failed"}
CandidateStates == {"pending_lock", "locked", "released", "refunded", "failed"}
OnchainStates == {"none", "locked", "released", "refunded"}

\* Transaction hashes and booking identifiers are strings; the model keeps
\* their prefix, their origin and the booking they were made for.
ShadowPrefix == "shadow-"
HexPrefix == "0x"
ShadowTx(b) == <<ShadowPrefix, "uuid4", b>>
ChainTx(op, b) == <<HexPrefix, op, b>>
KeccakId(b) == <<HexPrefix, "keccak", b>>
GarbageId(b) == <<HexPrefix, "nothex", b>>
ReservationId(b) == <<"uuid", "reservation", b>>
StartsWith(s, prefix) == s[1] = prefix

Row(state, key, cid, addr, tx, oid, idx) ==
  [escrow_state |-> state, chain_key |-> key, chain_id |-> cid,
   escrow_contract_address |-> addr, chain_tx_hash |-> tx,
   onchain_booking_id |-> oid, escrow_event_index |-> idx]

\* A reservation without escrow activity (column defaults).
EmptyRow == Row("none", Null, Null, Null, Null, Null, Null)
\* No reservation with this id exists.
NoRow == [escrow_state |-> "absent"]
Exists(r) == r.escrow_state # "absent"

(***************************************************************************)
(* State.                                                                  *)
(***************************************************************************)
VARIABLES
  cfg,        \* settings: allow-list, active key, per-chain rpc/contract/signer
  db,         \* table reservations: booking -> row (escrow columns)
  onchain,    \* escrow contract: booking -> state code of escrows(bookingId)
  readFault,  \* environment of the Record Reader, per booking
  recon,      \* the last reconciliation computed (engine or listing endpoint)
  mon,        \* _monitor_state._state, the MonitorState singleton
  clock,      \* wall clock: the timestamps written into MonitorState
  app,        \* application lifecycle: "init", "started", "stopped"
  loop,       \* the scheduler loop task (_escrow_reconciliation_task)
  runner,     \* threads executing run_escrow_reconciliation_once_now
  hist,       \* history: runs begun, runs completed with success / failure
  lastSnapshot, \* the snapshot most recently handed to a caller
  req,        \* booking and cleanup requests being served, per request thread
  chainView   \* the chain overview most recently served (GET /v2/chains, /health)

monitorVars == <<mon, clock, app, loop, runner, hist, lastSnapshot>>
vars == <<cfg, db, onchain, readFault, recon, mon, clock, app, loop, runner, hist,
          lastSnapshot, req, chainView>>

(***************************************************************************)
(* Record Reader (integrations/escrow_chain.py).                           *)
(***************************************************************************)
StateCodes == 0..3
ReadFaults == {"ok", "rpc_unreachable", "call_failed"}

\* state_map.get(state_index, "none")
state_map(code) ==
  CASE code = 1 -> "locked"
    [] code = 2 -> "released"
    [] code = 3 -> "refunded"
    [] OTHER -> "none"

\* A stored identifier decodes iff it is hex; identifiers without the 0x
\* prefix (or absent) are replaced by keccak(reservation_id).
Decodable(oid) == IsNull(oid) \/ ~StartsWith(Val(oid), HexPrefix) \/ Val(oid)[2] # "nothex"

Raise(kind, msg) == [kind |-> kind, msg |-> msg]
Raised(r) == r.kind \in {"RuntimeError", "Exception"}

\* read_escrow_record_onchain: RuntimeError for missing configuration and
\* unreachable RPC; any failure of the identifier decoding or of the
\* contract call leaves the function as the library's own exception.
read_escrow_record_onchain(chain, b, oid, oc, fault) ==
  IF chain.rpc_url = "" THEN Raise("RuntimeError", "rpc url not configured")
  ELSE IF chain.escrow_contract_address = "" THEN Raise("RuntimeError", "contract not configured")
  ELSE IF fault[b] = "rpc_unreachable" THEN Raise("RuntimeError", "unable to connect")
  ELSE IF ~Decodable(oid) THEN Raise("Exception", "non-hexadecimal identifier")
  ELSE IF fault[b] = "call_failed" THEN Raise("Exception", "contract call failed")
  ELSE [kind |-> "ok", state |-> state_map(oc[b])]

(***************************************************************************)
(* Booking store accessors (integrations/supabase_client.py).              *)
(***************************************************************************)
Min(a, b) == IF a < b THEN a ELSE b

\* Bookings in creation order, newest first (order created_at desc),
\* filtered by keep.
RECURSIVE NewestFirst(_, _)
NewestFirst(n, keep) ==
  IF n = 0 THEN <<>>
  ELSE IF keep[n] THEN <<n>> \o NewestFirst(n - 1, keep)
  ELSE NewestFirst(n - 1, keep)

IsReconCandidate(r, chain_key) ==
  /\ Exists(r)
  /\ r.chain_key = Some(chain_key)
  /\ r.escrow_state \in CandidateStates

\* list_reservations_for_escrow_reconciliation: the page
\* range(offset, offset + limit - 1) of the candidates and the exact count
\* of all candidates.
list_reservations_for_escrow_reconciliation(store, chain_key, limit, offset) ==
  LET all == NewestFirst(MaxBookings, [b \in Bookings |-> IsReconCandidate(store[b], chain_key)])
      first == offset + 1
      last == Min(offset + limit, Len(all))
  IN [rows |-> [i \in 1..(IF last >= first THEN last - first + 1 ELSE 0) |->
                  [reservation_id |-> all[first + i - 1],
                   escrow_state |-> store[all[first + i - 1]].escrow_state,
                   onchain_booking_id |-> store[all[first + i - 1]].onchain_booking_id]],
      total |-> Len(all)]

(***************************************************************************)
(* Reconciliation engine (observability/escrow_reconciliation_monitor.py)  *)
(* and listing endpoint (api/v2/routes/escrow.py).                         *)
(***************************************************************************)
\* A summary that starts from the counts the monitor kept from the last
\* successful run instead of from zero.
NewSummaryAccumulates(total) ==
  IF mon.last_summary = {}
    THEN [total |-> total, match |-> 0, mismatch |-> 0, missing_onchain |-> 0,
          skipped |-> 0, alert |-> FALSE]
    ELSE [Val(mon.last_summary) EXCEPT !.total = total]

\* EscrowReconciliationSummary(total=total)
NewSummary(total) ==
  [total |-> total, match |-> 0, mismatch |-> 0, missing_onchain |-> 0,
   skipped |-> 0, alert |-> FALSE]

\* Classify with a pending lock that the chain does not know taken for
\* agreement.
ClassifyPendingAgrees(db_state, onchain_state) ==
  IF onchain_state = "none" /\ db_state # "pending_lock" THEN "missing_onchain"
  ELSE IF db_state = onchain_state \/ onchain_state = "none" THEN "match"
  ELSE "mismatch"

\* The classification of one candidate whose read succeeded.
Classify(db_state, onchain_state) ==
  IF onchain_state = "none" THEN "missing_onchain"
  ELSE IF db_state = onchain_state THEN "match"
  ELSE "mismatch"

Count(summary, result) ==
  CASE result = "missing_onchain" -> [summary EXCEPT !.missing_onchain = @ + 1]
    [] result = "match" -> [summary EXCEPT !.match = @ + 1]
    [] result = "mismatch" -> [summary EXCEPT !.mismatch = @ + 1]
    [] result = "skipped" -> [summary EXCEPT !.skipped = @ + 1]

\* The for loop over the fetched rows: `except RuntimeError` turns a failed
\* read into skipped; any other exception ends the loop and propagates.
\* acc carries the summary and the items appended so far.
RECURSIVE ReconcileRows(_, _, _, _, _, _)
ReconcileRows(chain, rows, i, acc, oc, fault) ==
  IF i > Len(rows) THEN [kind |-> "ok", summary |-> acc.summary, items |-> acc.items]
  ELSE
    LET row == rows[i]
        rd == read_escrow_record_onchain(chain, row.reservation_id,
                                         row.onchain_booking_id, oc, fault)
        result == IF rd.kind = "RuntimeError" THEN "skipped"
                  ELSE Classify(row.escrow_state, rd.state)
    IN IF rd.kind = "Exception" THEN rd
       ELSE ReconcileRows(chain, rows, i + 1,
              [summary |-> Count(acc.summary, result),
               items |-> Append(acc.items,
                           [reservation_id |-> row.reservation_id, result |-> result])],
              oc, fault)

\* SummaryAlert with the skipped candidates counted in.
SummaryAlertCountsSkipped(summary) ==
  (summary.mismatch + summary.missing_onchain + summary.skipped) > 0

\* summary.alert = (summary.mismatch + summary.missing_onchain) > 0
SummaryAlert(summary) == (summary.mismatch + summary.missing_onchain) > 0

\* An engine that fetches its page before it looks the chain up.
build_summary_fetches_first(chain_key, limit, c, store, oc, fault, storeOk) ==
  LET registry == get_chain_registry(c) IN
  IF ~storeOk THEN Raise("RuntimeError", "store request failed")
  ELSE IF chain_key \notin DOMAIN registry THEN Raise("RuntimeError", "unsupported chain_key")
  ELSE IF ~registry[chain_key].enabled THEN Raise("RuntimeError", "chain is disabled")
  ELSE
    LET page == list_reservations_for_escrow_reconciliation(store, chain_key, limit, 0)
        batch == ReconcileRows(registry[chain_key], page.rows, 1,
                              [summary |-> NewSummary(page.total), items |-> <<>>],
                              oc, fault)
    IN IF Raised(batch) THEN batch
       ELSE [kind |-> "summary",
             summary |-> [batch.summary EXCEPT !.alert = SummaryAlert(batch.summary)]]

\* _build_summary(chain_key, limit): the engine.  storeOk = FALSE is a
\* booking-store failure (RuntimeError of the accessor).
build_summary(chain_key, limit, c, store, oc, fault, storeOk) ==
  LET registry == get_chain_registry(c) IN
  IF chain_key \notin DOMAIN registry THEN Raise("RuntimeError", "unsupported chain_key")
  ELSE IF ~registry[chain_key].enabled THEN Raise("RuntimeError", "chain is disabled")
  ELSE IF ~storeOk THEN Raise("RuntimeError", "store request failed")
  ELSE
    LET page == list_reservations_for_escrow_reconciliation(store, chain_key, limit, 0)
        batch == ReconcileRows(registry[chain_key], page.rows, 1,
                              [summary |-> NewSummary(page.total), items |-> <<>>],
                              oc, fault)
    IN IF Raised(batch) THEN batch
       ELSE [kind |-> "summary",
             summary |-> [batch.summary EXCEPT !.alert = SummaryAlert(batch.summary)]]

\* GET /v2/escrow/reconciliation.  key = "" is an omitted chain_key query
\* parameter.  HTTP 400 / 503 are the handler's own errors; an exception it
\* does not catch reaches the application's handler as HTTP 500.
get_escrow_reconciliation(key, limit, offset, c, store, oc, fault, storeOk) ==
  LET registry == get_chain_registry(c)
      resolved_key == IF key = "" THEN get_active_chain(c).key ELSE key
  IN
  IF resolved_key \notin DOMAIN registry THEN [kind |-> "http", status |-> 400]
  ELSE IF ~registry[resolved_key].enabled THEN [kind |-> "http", status |-> 400]
  ELSE IF ~storeOk THEN [kind |-> "http", status |-> 503]
  ELSE
    LET page == list_reservations_for_escrow_reconciliation(store, resolved_key, limit, offset)
        batch == ReconcileRows(registry[resolved_key], page.rows, 1,
                              [summary |-> NewSummary(page.total), items |-> <<>>],
                              oc, fault)
    IN IF Raised(batch) THEN [kind |-> "http", status |-> 500]
       ELSE [kind |-> "summary",
             items |-> batch.items,
             count |-> page.total,
             has_more |-> offset + Len(batch.items) < page.total,
             summary |-> [batch.summary EXCEPT !.alert = SummaryAlert(batch.summary)]]

(***************************************************************************)
(* MonitorState (observability/escrow_reconciliation_monitor.py).          *)
(***************************************************************************)
DefaultMismatchThreshold == 1
DefaultMissingOnchainThreshold == 1
DefaultSkippedThreshold == 1

\* _MonitorState.__init__
NewMonitorState(c) ==
  [running |-> FALSE,
   chain_key |-> Null,
   last_started_at |-> Null,
   last_finished_at |-> Null,
   last_success_at |-> Null,
   last_duration_ms |-> Null,
   runs_total |-> 0,
   consecutive_failures |-> 0,
   last_error |-> Null,
   last_summary |-> Null,
   alert_thresholds |-> c.thresholds,
   alert_active |-> FALSE]

\* begin_run that also forgets the failures counted so far.
begin_run_resets_failures(m, chain_key, now) ==
  [m EXCEPT !.running = TRUE,
            !.chain_key = Some(chain_key),
            !.last_started_at = Some(now),
            !.consecutive_failures = 0,
            !.last_error = Null]

\* _MonitorState.begin_run
begin_run(m, chain_key, now) ==
  [m EXCEPT !.running = TRUE,
            !.chain_key = Some(chain_key),
            !.last_started_at = Some(now),
            !.last_error = Null]

\* An alert_active that copies the summary's own alert flag.
ThresholdAlertIsSummaryAlert(thresholds, summary) == summary.alert

\* The alert_active of complete_success: any count at or above its threshold.
ThresholdAlert(thresholds, summary) ==
  \/ summary.mismatch >= thresholds.mismatch
  \/ summary.missing_onchain >= thresholds.missing_onchain
  \/ summary.skipped >= thresholds.skipped

\* complete_success that leaves last_error as it finds it.
complete_success_keeps_error(m, duration, summary, now) ==
  [m EXCEPT !.running = FALSE,
            !.last_finished_at = Some(now),
            !.last_success_at = Some(now),
            !.last_duration_ms = Some(duration),
            !.runs_total = @ + 1,
            !.consecutive_failures = 0,
            !.last_summary = Some(summary),
            !.alert_active = ThresholdAlert(m.alert_thresholds, summary)]

\* _MonitorState.complete_success
complete_success(m, duration, summary, now) ==
  [m EXCEPT !.running = FALSE,
            !.last_finished_at = Some(now),
            !.last_success_at = Some(now),
            !.last_duration_ms = Some(duration),
            !.runs_total = @ + 1,
            !.consecutive_failures = 0,
            !.last_summary = Some(summary),
            !.alert_active = ThresholdAlert(m.alert_thresholds, summary),
            !.last_error = Null]

\* complete_failure that leaves alert_active as the previous run set it.
complete_failure_keeps_alert(m, duration, error, now) ==
  [m EXCEPT !.running = FALSE,
            !.last_finished_at = Some(now),
            !.last_duration_ms = Some(duration),
            !.runs_total = @ + 1,
            !.consecutive_failures = @ + 1,
            !.last_error = Some(error)]

\* complete_failure that leaves the failed run out of runs_total.
complete_failure_uncounted(m, duration, error, now) ==
  [m EXCEPT !.running = FALSE,
            !.last_finished_at = Some(now),
            !.last_duration_ms = Some(duration),
            !.consecutive_failures = @ + 1,
            !.last_error = Some(error),
            !.alert_active = TRUE]

\* _MonitorState.complete_failure
complete_failure(m, duration, error, now) ==
  [m EXCEPT !.running = FALSE,
            !.last_finished_at = Some(now),
            !.last_duration_ms = Some(duration),
            !.runs_total = @ + 1,
            !.consecutive_failures = @ + 1,
            !.last_error = Some(error),
            !.alert_active = TRUE]

\* _MonitorState.snapshot: a copy of the state taken under the lock.
snapshot(m) == m

\* _resolve_chain_key: the configured override, else the active chain.
resolve_chain_key(c) ==
  IF c.recon_chain_key # "" THEN c.recon_chain_key ELSE get_active_chain(c).key

\* A run_escrow_reconciliation_once_now whose except clause names
\* RuntimeError only: any other exception leaves it before a completion.
complete_run_catches_runtime_error(m, out, duration, now) ==
  IF out.kind = "summary" THEN complete_success(m, duration, out.summary, now)
  ELSE IF out.kind = "RuntimeError" THEN complete_failure(m, duration, out.msg, now)
  ELSE m

\* The try / except of run_escrow_reconciliation_once_now applied to the
\* engine's outcome: a summary goes to complete_success, every exception
\* to complete_failure.
complete_run(m, out, duration, now) ==
  IF out.kind = "summary" THEN complete_success(m, duration, out.summary, now)
  ELSE complete_failure(m, duration, out.msg, now)

\* Threads that execute run_escrow_reconciliation_once_now: thread 0 is the
\* worker asyncio.to_thread gives the scheduler loop, the others serve
\* POST /v2/escrow/reconciliation-monitor/run requests.
SchedRunner == 0
Runners == 0..MaxManual
IdleRunner == [pc |-> "idle", start |-> 0]

\* Request threads serving the booking and cleanup endpoints: two requests
\* can be in progress at the same time.
Requests == {"reqA", "reqB"}
\* No call of clear_reservation_shadow_escrow_metadata has returned yet.
NoCall == [reservation_id |-> 0]
IdleReq ==
  [kind |-> "idle", pc |-> "idle", b |-> 0, chain_key |-> "", row |-> NoRow,
   settlement |-> Null, candidate_count |-> 0, cands |-> <<>>, attempt |-> NoRow,
   last_call |-> NoCall, cleaned |-> <<>>, status |-> 0, applied |-> FALSE]

(***************************************************************************)
(* SpecRecon: the engine and the endpoint applied to bounded inputs.       *)
(***************************************************************************)
\* Rows a store can hold for booking b.
SettledRow(state, k, b) ==
  Row(state, Some(k), Some(IF k = "sepolia" THEN ChainIdSepolia ELSE ChainIdAmoy),
      Some("0xcontract"), Some(ChainTx(state, b)), Some(KeccakId(b)), Some(0))
ShadowRow(k, b) ==
  Row("pending_lock", Some(k), Some(IF k = "sepolia" THEN ChainIdSepolia ELSE ChainIdAmoy),
      Some("0xcontract"), Some(ShadowTx(b)), Some(ReservationId(b)), Some(0))

ReconRows(b) ==
  {EmptyRow, ShadowRow("sepolia", b), SettledRow("failed", "sepolia", b),
   [SettledRow("locked", "sepolia", b) EXCEPT !.onchain_booking_id = Some(GarbageId(b))]}
  \cup {SettledRow(s, "sepolia", b) : s \in {"locked", "released", "refunded"}}
  \cup {SettledRow("locked", "amoy", b)}

\* Settings: everything configured and only sepolia allowed, or both chains
\* allowed with amoy's RPC URL missing.
BaseCfg ==
  [allowed |-> {"sepolia"}, active |-> "sepolia",
   rpc |-> [k \in ChainKeys |-> "https://rpc"],
   contract |-> [k \in ChainKeys |-> "0xcontract"],
   signer |-> [k \in ChainKeys |-> "0xkey"],
   feature_escrow_shadow_write |-> TRUE,
   feature_escrow_onchain_lock |-> FALSE,
   scheduler |-> TRUE,
   recon_chain_key |-> "",
   recon_limit |-> MaxLimit,
   thresholds |-> [mismatch |-> DefaultMismatchThreshold,
                   missing_onchain |-> DefaultMissingOnchainThreshold,
                   skipped |-> DefaultSkippedThreshold]]
ReconCfgs ==
  {BaseCfg,
   [BaseCfg EXCEPT !.allowed = ChainKeys, !.rpc = [@ EXCEPT !["amoy"] = ""]]}

RequestKeys == ChainKeys \cup {"mainnet"}

NoRecon == [via |-> "none"]

InitRecon ==
  /\ cfg \in ReconCfgs
  /\ db \in {f \in [Bookings -> UNION {ReconRows(b) : b \in Bookings}] :
               \A b \in Bookings : f[b] \in ReconRows(b)}
  \* the contract's answer and the fault of a read are drawn for the rows
  \* whose read reaches an RPC endpoint (the sepolia candidates: amoy has no
  \* RPC URL where it is allowed); a failing read never consults the contract
  /\ onchain \in [Bookings -> StateCodes]
  /\ readFault \in [Bookings -> ReadFaults]
  /\ \A b \in Bookings :
       /\ readFault[b] # "ok" => onchain[b] = 0
       /\ ~IsReconCandidate(db[b], "sepolia") => onchain[b] = 0 /\ readFault[b] = "ok"
  /\ recon = NoRecon
  /\ mon = NewMonitorState(cfg)
  /\ clock = 0
  /\ app = "started"
  /\ loop = "off"
  /\ runner = [t \in Runners |-> IdleRunner]
  /\ hist = [begun |-> 0, succeeded |-> 0, failed |-> 0]
  /\ lastSnapshot = Null
  /\ req = [r \in Requests |-> IdleReq]
  /\ chainView = Null

\* One run of the engine, reconcile(chainKey, limit).  A reconciliation
\* changes nothing but its own result, so a second one started from the
\* same store and chain reaches no state the first does not reach: each
\* behaviour of SpecRecon computes one.  The run is the monitor's runOnce
\* with chainKey and limit as its settings: begin_run, the engine, and the
\* completion that stores the summary.
EngineReconcile ==
  \E key \in RequestKeys, limit \in 1..MaxLimit, storeOk \in BOOLEAN :
    /\ recon = NoRecon
    /\ storeOk \/ limit = 1      \* a store failure is the same for every page
    /\ recon' = [via |-> "engine", chain_key |-> key, limit |-> limit, offset |-> 0,
                 storeOk |-> storeOk,
                 out |-> build_summary(key, limit, cfg, db, onchain, readFault, storeOk)]
    /\ mon' = complete_run(begin_run(mon, key, clock), recon'.out, 1, clock + 1)
    /\ clock' = clock + 1
    /\ hist' = IF recon'.out.kind = "summary"
                 THEN [hist EXCEPT !.begun = @ + 1, !.succeeded = @ + 1]
                 ELSE [hist EXCEPT !.begun = @ + 1, !.failed = @ + 1]
    /\ lastSnapshot' = Some(snapshot(mon'))
    /\ UNCHANGED <<cfg, db, onchain, readFault, app, loop, runner, req, chainView>>

\* One request to the listing endpoint, its chain_key omitted (the active
\* chain), naming the other chain, or naming no chain of the registry.
ListReconciliation ==
  \E key \in {"", "amoy", "mainnet"}, limit \in 1..MaxLimit, offset \in 0..MaxOffset,
     storeOk \in BOOLEAN :
    /\ recon = NoRecon
    \* a request refused before its page is read is drawn for one page only
    /\ \/ storeOk /\ key # "mainnet" /\ (key = "amoy" => "amoy" \in cfg.allowed)
       \/ limit = 1 /\ offset = 0
    /\ recon' = [via |-> "endpoint",
                 chain_key |-> IF key = "" THEN get_active_chain(cfg).key ELSE key,
                 limit |-> limit, offset |-> offset, storeOk |-> storeOk,
                 out |-> get_escrow_reconciliation(key, limit, offset, cfg, db, onchain,
                                                   readFault, storeOk)]
    /\ UNCHANGED <<cfg, db, onchain, readFault, req, chainView>>
    /\ UNCHANGED monitorVars

NextRecon == EngineReconcile \/ ListReconciliation

SpecRecon == InitRecon /\ [][NextRecon]_vars

(***************************************************************************)
(* Spec: the reconciliation monitor.  The scheduler loop (an asyncio task  *)
(* that runs each run_escrow_reconciliation_once_now in a worker thread),  *)
(* manual "run now" requests (each in a request thread), status reads,     *)
(* application startup and shutdown.  begin_run, complete_success,         *)
(* complete_failure and snapshot each hold _MonitorState._lock for their   *)
(* whole body and are atomic steps; nothing holds it across the engine.    *)
(***************************************************************************)
\* What the Record Reader and the chain answer during one run, the same for
\* every booking of the run: the chain state read, or the fault of the read.
\* (SpecRecon covers the answers that differ from booking to booking.)
RunAnswers == {"locked", "none", "released", "rpc_unreachable", "call_failed"}
RunEnvs == {[b \in Bookings |-> a] : a \in RunAnswers}
EnvChain(e) ==
  [b \in Bookings |-> CASE e[b] = "locked" -> 1 [] e[b] = "released" -> 2 [] OTHER -> 0]
EnvFault(e) ==
  [b \in Bookings |-> IF e[b] \in ReadFaults THEN e[b] ELSE "ok"]

Init ==
  /\ cfg = BaseCfg
  /\ db = [b \in Bookings |->
             SettledRow(IF b = 1 THEN "locked" ELSE "released", "sepolia", b)]
  /\ onchain = [b \in Bookings |-> 1]
  /\ readFault = [b \in Bookings |-> "ok"]
  /\ recon = NoRecon
  /\ mon = NewMonitorState(cfg)
  /\ clock = 0
  /\ app = "init"
  /\ loop = "off"
  /\ runner = [t \in Runners |-> IdleRunner]
  /\ hist = [begun |-> 0, succeeded |-> 0, failed |-> 0]
  /\ lastSnapshot = Null
  /\ req = [r \in Requests |-> IdleReq]
  /\ chainView = Null

envVars == <<cfg, db, onchain, readFault, recon, req, chainView>>

\* startup_tasks: create the scheduler task once; its first iteration hands
\* run_escrow_reconciliation_once_now to a worker thread.
Startup ==
  /\ app = "init"
  /\ app' = "started"
  /\ IF cfg.scheduler /\ loop = "off"
       THEN /\ loop' = "awaiting_run"
            /\ runner' = [runner EXCEPT ![SchedRunner].pc = "submitted"]
       ELSE UNCHANGED <<loop, runner>>
  /\ UNCHANGED <<mon, clock, hist, lastSnapshot>>
  /\ UNCHANGED envVars

\* run_escrow_reconciliation_once_now up to the engine: resolve the chain
\* key, begin_run, take the start time.  A request thread enters on a POST
\* to the run endpoint, the scheduler's worker when its work item starts.
BeginRun(t) ==
  /\ app = "started" \/ t = SchedRunner
  /\ runner[t].pc = (IF t = SchedRunner THEN "submitted" ELSE "idle")
  /\ hist.begun < MaxRuns
  /\ mon' = begin_run(mon, resolve_chain_key(cfg), clock)
  /\ runner' = [runner EXCEPT ![t] = [pc |-> "engine", start |-> clock]]
  /\ clock' = clock + 1
  /\ hist' = [hist EXCEPT !.begun = @ + 1]
  /\ UNCHANGED <<app, loop, lastSnapshot>>
  /\ UNCHANGED envVars

\* The engine returns or raises, and the run is completed under the lock.
CompleteRun(t) ==
  /\ runner[t].pc = "engine"
  /\ \E e \in RunEnvs, storeOk \in BOOLEAN :
       LET out == build_summary(resolve_chain_key(cfg), cfg.recon_limit, cfg, db,
                                EnvChain(e), EnvFault(e), storeOk)
       IN /\ storeOk \/ \A b \in Bookings : e[b] = "locked"
          /\ mon' = complete_run(mon, out, clock - runner[t].start, clock)
          /\ hist' = IF out.kind = "summary" THEN [hist EXCEPT !.succeeded = @ + 1]
                     ELSE [hist EXCEPT !.failed = @ + 1]
  /\ runner' = [runner EXCEPT ![t].pc = "completed"]
  /\ clock' = clock + 1
  /\ UNCHANGED <<app, loop, lastSnapshot>>
  /\ UNCHANGED envVars

\* The snapshot that run_escrow_reconciliation_once_now returns, taken in a
\* second acquisition of the lock.
ReturnSnapshot(t) ==
  /\ runner[t].pc = "completed"
  /\ lastSnapshot' = Some(snapshot(mon))
  /\ runner' = [runner EXCEPT ![t] = [pc |-> IF t = SchedRunner THEN "returned" ELSE "idle",
                                       start |-> 0]]
  /\ UNCHANGED <<mon, clock, app, loop, hist>>
  /\ UNCHANGED envVars

\* The loop's await asyncio.to_thread(...) returns; it sleeps the interval.
LoopSleep ==
  /\ loop = "awaiting_run"
  /\ runner[SchedRunner].pc = "returned"
  /\ loop' = "sleeping"
  /\ runner' = [runner EXCEPT ![SchedRunner].pc = "idle"]
  /\ UNCHANGED <<mon, clock, app, hist, lastSnapshot>>
  /\ UNCHANGED envVars

\* A loop that hands the next run to a worker without awaiting the one it
\* handed out before.
LoopNextRunWithoutAwait ==
  /\ loop = "awaiting_run"
  /\ runner[SchedRunner].pc = "engine"
  /\ hist.begun < MaxRuns
  /\ loop' = "awaiting_run"
  /\ runner' = [runner EXCEPT ![SchedRunner].pc = "submitted"]
  /\ UNCHANGED <<mon, clock, app, hist, lastSnapshot>>
  /\ UNCHANGED envVars

\* The interval has elapsed: the next iteration hands the next run to a
\* worker thread.
LoopNextRun ==
  /\ loop = "sleeping"
  /\ hist.begun < MaxRuns
  /\ loop' = "awaiting_run"
  /\ runner' = [runner EXCEPT ![SchedRunner].pc = "submitted"]
  /\ UNCHANGED <<mon, clock, app, hist, lastSnapshot>>
  /\ UNCHANGED envVars

\* shutdown_tasks: task.cancel() and await task.  CancelledError is raised
\* in the loop at its current await (to_thread or sleep) and the task ends;
\* a work item that has not started is cancelled with it, a worker thread
\* that is executing the run is not interrupted and is not waited for.
Shutdown ==
  /\ app = "started"
  /\ app' = "stopped"
  /\ IF loop \in {"awaiting_run", "sleeping"}
       THEN /\ loop' = "stopped"
            /\ runner' = [runner EXCEPT ![SchedRunner] =
                            IF @.pc \in {"submitted", "returned"} THEN IdleRunner ELSE @]
       ELSE UNCHANGED <<loop, runner>>
  /\ UNCHANGED <<mon, clock, hist, lastSnapshot>>
  /\ UNCHANGED envVars

\* GET /v2/escrow/reconciliation-monitor and GET /health: a snapshot.
ReadMonitor ==
  /\ app = "started"
  /\ lastSnapshot' = Some(snapshot(mon))
  /\ UNCHANGED <<mon, clock, app, loop, runner, hist>>
  /\ UNCHANGED envVars

Next ==
  \/ Startup
  \/ \E t \in Runners : BeginRun(t)
  \/ \E t \in Runners : CompleteRun(t)
  \/ \E t \in Runners : ReturnSnapshot(t)
  \/ LoopSleep
  \/ LoopNextRun
  \/ Shutdown
  \/ ReadMonitor

Spec == Init /\ [][Next]_vars

(***************************************************************************)
(* Settlement transactions, shadow record writes and the cleanup store     *)
(* operations.                                                             *)
(***************************************************************************)
\* What one settlement call can run into.  "ok_undecoded" is a successful
\* transaction whose event log could not be decoded; "receipt_timeout_mined"
\* is a transaction that is mined after the wait for its receipt gave up.
TxOutcomes ==
  {"ok", "ok_undecoded", "deps_missing", "rpc_unreachable", "submit_error",
   "receipt_timeout", "receipt_timeout_mined", "reverted"}
MinedOutcomes == {"ok", "ok_undecoded", "receipt_timeout_mined"}

\* The ledger's state code a lock / release / refund starts from and leaves.
LedgerBefore(state) == IF state = "locked" THEN 0 ELSE 1
LedgerAfter(state) ==
  CASE state = "locked" -> 1
    [] state = "released" -> 2
    [] OTHER -> 3

\* _resolve_booking_id_bytes: a stored id starting with 0x is used as it is,
\* anything else is replaced by the hash of the reservation id.
resolve_booking_id_bytes(b, oid) ==
  IF ~IsNull(oid) /\ StartsWith(Val(oid), HexPrefix) THEN Val(oid) ELSE KeccakId(b)

\* The same steps with a failed event decoding raised to the caller.
SendTransactionDecodeRaises(state, chain, b, booking_id, outcome) ==
  IF outcome = "deps_missing"
    THEN Raise("RuntimeError", "missing web3 dependencies")
  ELSE IF chain.rpc_url = "" \/ chain.escrow_contract_address = ""
          \/ chain.signer_private_key = ""
    THEN Raise("RuntimeError", "chain not configured")
  ELSE IF outcome = "rpc_unreachable"
    THEN Raise("RuntimeError", "unable to connect")
  ELSE IF booking_id[2] = "nothex"
    THEN Raise("Exception", "booking id is not hex")
  ELSE IF outcome = "submit_error"
    THEN Raise("Exception", "transaction rejected")
  ELSE IF outcome \in {"receipt_timeout", "receipt_timeout_mined"}
    THEN Raise("Exception", "receipt wait timed out")
  ELSE IF outcome = "reverted"
    THEN Raise("RuntimeError", "transaction reverted")
  ELSE IF outcome = "ok_undecoded"
    THEN Raise("RuntimeError", "event decoding failed")
  ELSE [kind |-> "ok", tx_hash |-> ChainTx(state, b),
        onchain_booking_id |-> booking_id,
        event_index |-> IF outcome = "ok" THEN 1 ELSE 0]

\* The same steps without the test of the receipt's status.
SendTransactionIgnoresStatus(state, chain, b, booking_id, outcome) ==
  IF outcome = "deps_missing"
    THEN Raise("RuntimeError", "missing web3 dependencies")
  ELSE IF chain.rpc_url = "" \/ chain.escrow_contract_address = ""
          \/ chain.signer_private_key = ""
    THEN Raise("RuntimeError", "chain not configured")
  ELSE IF outcome = "rpc_unreachable"
    THEN Raise("RuntimeError", "unable to connect")
  ELSE IF booking_id[2] = "nothex"
    THEN Raise("Exception", "booking id is not hex")
  ELSE IF outcome = "submit_error"
    THEN Raise("Exception", "transaction rejected")
  ELSE IF outcome \in {"receipt_timeout", "receipt_timeout_mined"}
    THEN Raise("Exception", "receipt wait timed out")
  ELSE [kind |-> "ok", tx_hash |-> ChainTx(state, b),
        onchain_booking_id |-> booking_id,
        event_index |-> IF outcome = "ok" THEN 1 ELSE 0]

\* The steps shared by lock / release / refund, in the order of the code.
SendTransaction(state, chain, b, booking_id, outcome) ==
  IF outcome = "deps_missing"
    THEN Raise("RuntimeError", "missing web3 dependencies")
  ELSE IF chain.rpc_url = "" \/ chain.escrow_contract_address = ""
          \/ chain.signer_private_key = ""
    THEN Raise("RuntimeError", "chain not configured")
  ELSE IF outcome = "rpc_unreachable"
    THEN Raise("RuntimeError", "unable to connect")
  ELSE IF booking_id[2] = "nothex"
    THEN Raise("Exception", "booking id is not hex")
  ELSE IF outcome = "submit_error"
    THEN Raise("Exception", "transaction rejected")
  ELSE IF outcome \in {"receipt_timeout", "receipt_timeout_mined"}
    THEN Raise("Exception", "receipt wait timed out")
  ELSE IF outcome = "reverted"
    THEN Raise("RuntimeError", "transaction reverted")
  ELSE [kind |-> "ok", tx_hash |-> ChainTx(state, b),
        onchain_booking_id |-> booking_id,
        event_index |-> IF outcome = "ok" THEN 1 ELSE 0]

lock_reservation_escrow_onchain(chain, b, outcome) ==
  SendTransaction("locked", chain, b, KeccakId(b), outcome)
release_reservation_escrow_onchain(chain, b, oid, outcome) ==
  SendTransaction("released", chain, b, resolve_booking_id_bytes(b, oid), outcome)
refund_reservation_escrow_onchain(chain, b, oid, outcome) ==
  SendTransaction("refunded", chain, b, resolve_booking_id_bytes(b, oid), outcome)

\* The transaction reached the chain and was mined.
Mined(res, outcome) ==
  /\ outcome \in MinedOutcomes
  /\ res.kind = "ok" \/ res.msg = "receipt wait timed out"

\* write_reservation_escrow_shadow_metadata: one UPDATE of all escrow
\* columns of the reservation, then a read-back; either call can fail.
WriteOutcomes == {"ok", "update_failed", "readback_failed"}
\* The write with the event index of the result replaced by 0.
write_reservation_escrow_shadow_metadata_zero_index(store, b, chain, tx_hash, oid, idx, state, outcome) ==
  IF outcome = "update_failed" \/ ~Exists(store[b]) THEN store
  ELSE [store EXCEPT ![b] =
          Row(state, Some(chain.key), Some(chain.chain_id),
              Some(chain.escrow_contract_address), Some(tx_hash), Some(oid),
              Some(0))]
\* The write with chain_tx_hash left out of the UPDATE.
write_reservation_escrow_shadow_metadata_keeps_hash(store, b, chain, tx_hash, oid, idx, state, outcome) ==
  IF outcome = "update_failed" \/ ~Exists(store[b]) THEN store
  ELSE [store EXCEPT ![b] =
          Row(state, Some(chain.key), Some(chain.chain_id),
              Some(chain.escrow_contract_address), store[b].chain_tx_hash,
              Some(oid), Some(idx))]
\* The write as it is: a reservation that does not exist is not touched.
write_reservation_escrow_shadow_metadata(store, b, chain, tx_hash, oid, idx, state, outcome) ==
  IF outcome = "update_failed" \/ ~Exists(store[b]) THEN store
  ELSE [store EXCEPT ![b] =
          Row(state, Some(chain.key), Some(chain.chain_id),
              Some(chain.escrow_contract_address), Some(tx_hash), Some(oid),
              Some(idx))]

\* A filter without the like("chain_tx_hash", "shadow-%") condition.
IsShadowCandidateAnyHash(r, chain_key) ==
  /\ Exists(r)
  /\ r.chain_key = Some(chain_key)
  /\ r.escrow_state = "pending_lock"
  /\ ~IsNull(r.chain_tx_hash)

\* list_reservations_for_shadow_cleanup: pending_lock rows of the chain
\* whose hash has the shadow prefix, newest first, at most limit of them.
IsShadowCandidate(r, chain_key) ==
  /\ Exists(r)
  /\ r.chain_key = Some(chain_key)
  /\ r.escrow_state = "pending_lock"
  /\ ~IsNull(r.chain_tx_hash)
  /\ StartsWith(Val(r.chain_tx_hash), ShadowPrefix)

list_reservations_for_shadow_cleanup(store, chain_key, limit) ==
  LET all == NewestFirst(MaxBookings,
                         [b \in Bookings |-> IsShadowCandidate(store[b], chain_key)])
  IN [i \in 1..Min(limit, Len(all)) |->
        [reservation_id |-> all[i], chain_tx_hash |-> Val(store[all[i]].chain_tx_hash)]]

\* An UPDATE guarded by reservation, chain key and state, not by the hash.
ClearGuardedUpdateAnyHash(store, b, chain_key, expected_tx_hash) ==
  IF /\ Exists(store[b])
     /\ store[b].chain_key = Some(chain_key)
     /\ store[b].escrow_state = "pending_lock"
    THEN [store EXCEPT ![b] = EmptyRow]
    ELSE store

\* clear_reservation_shadow_escrow_metadata, first call: the UPDATE guarded
\* by reservation, chain key, state pending_lock and the expected hash.
ClearGuardedUpdate(store, b, chain_key, expected_tx_hash) ==
  IF /\ Exists(store[b])
     /\ store[b].chain_key = Some(chain_key)
     /\ store[b].escrow_state = "pending_lock"
     /\ store[b].chain_tx_hash = Some(expected_tx_hash)
    THEN [store EXCEPT ![b] = EmptyRow]
    ELSE store

\* A clear that reports that the row was found, whatever it holds.
ClearVerifiedRowFound(row) == Exists(row)

\* A clear that reports the attempt of the write, whatever is read back.
ClearVerifiedAttemptOnly(row) == TRUE
\* clear_reservation_shadow_escrow_metadata, second call: what is returned
\* for the row read back.
ClearVerified(row) ==
  /\ Exists(row)
  /\ row.escrow_state = "none"
  /\ IsNull(row.chain_key)
  /\ IsNull(row.chain_tx_hash)
  /\ IsNull(row.onchain_booking_id)

(***************************************************************************)
(* SpecEscrow: the booking endpoints with their escrow side effects and    *)
(* the shadow cleanup endpoint, served by concurrent request threads.      *)
(* A request thread holds what its handler has in local variables between  *)
(* two calls to the store or the chain; a finished request keeps its       *)
(* response until the thread takes the next request.                       *)
(***************************************************************************)
HttpOk == 200
HttpBadRequest == 400
HttpNotFound == 404
HttpServerError == 500
HttpUnavailable == 503

Free(r) == req[r].pc \in {"idle", "done"}
\* The response of a booking request; applied tells whether the booking
\* operation itself (create / check-in / cancel) was carried out.
Done(kind, b, status, applied) ==
  [IdleReq EXCEPT !.kind = kind, !.pc = "done", !.b = b, !.status = status,
                  !.applied = applied]
\* How a handler ends for the result of its escrow side effect: a
\* RuntimeError is caught and logged, anything else leaves the handler.
AfterSideEffect(kind, b, res) ==
  IF res.kind = "Exception" THEN Done(kind, b, HttpServerError, TRUE)
  ELSE Done(kind, b, HttpOk, TRUE)

\* The chain a release or refund goes to for a reservation row.
SettlementChain(row) ==
  LET registry == get_chain_registry(cfg)
      chain_key == IF IsNull(row.chain_key) THEN get_active_chain(cfg).key
                   ELSE Val(row.chain_key)
  IN IF chain_key \in DOMAIN registry THEN registry[chain_key]
     ELSE get_active_chain(cfg)
Usable(chain) ==
  /\ chain.enabled
  /\ chain.rpc_url # ""
  /\ chain.escrow_contract_address # ""
  /\ chain.signer_private_key # ""

EscrowUnchanged == UNCHANGED <<cfg, readFault, recon, chainView>> /\ UNCHANGED monitorVars

\* create_reservation / create_tour_reservation up to the first call of
\* _maybe_apply_escrow_shadow_write that leaves the process.
StartCreate(r, b) ==
  /\ Free(r)
  /\ db[b] = NoRow
  /\ \A p \in Bookings : p < b => Exists(db[p])
  /\ \E created \in BOOLEAN :
       LET chain == get_active_chain(cfg)
           skipped == \/ ~cfg.feature_escrow_shadow_write
                      \/ ~chain.enabled
                      \/ chain.rpc_url = "" \/ chain.escrow_contract_address = ""
                      \/ cfg.feature_escrow_onchain_lock /\ chain.signer_private_key = ""
       IN /\ db' = IF created THEN [db EXCEPT ![b] = EmptyRow] ELSE db
          /\ req' = [req EXCEPT ![r] =
               IF ~created THEN Done("create", b, HttpUnavailable, FALSE)
               ELSE IF skipped THEN Done("create", b, HttpOk, TRUE)
               ELSE [IdleReq EXCEPT !.kind = "create", !.b = b, !.applied = TRUE,
                       !.chain_key = chain.key,
                       !.pc = IF cfg.feature_escrow_onchain_lock THEN "settle"
                              ELSE "shadow_write"]]
  /\ UNCHANGED onchain
  /\ EscrowUnchanged

\* A settlement transaction of a handler: lock_/release_/refund_
\* reservation_escrow_onchain called with what the thread holds.
SettleOnchain(r, kind, state, res, outcome) ==
  /\ req[r].kind = kind
  /\ req[r].pc = "settle"
  /\ outcome \in MinedOutcomes => onchain[req[r].b] = LedgerBefore(state)
  /\ onchain' = IF Mined(res, outcome)
                  THEN [onchain EXCEPT ![req[r].b] = LedgerAfter(state)]
                  ELSE onchain
  /\ req' = [req EXCEPT ![r] =
       IF res.kind = "ok" THEN [req[r] EXCEPT !.pc = "write", !.settlement = Some(res)]
       ELSE AfterSideEffect(kind, req[r].b, res)]
  /\ UNCHANGED db
  /\ EscrowUnchanged

\* The write of the settlement's result to the reservation row.
WriteSettlement(r, kind, state) ==
  /\ req[r].kind = kind
  /\ req[r].pc = "write"
  /\ \E outcome \in WriteOutcomes :
       LET s == Val(req[r].settlement)
       IN db' = write_reservation_escrow_shadow_metadata(
                  db, req[r].b, get_chain_registry(cfg)[req[r].chain_key],
                  s.tx_hash, s.onchain_booking_id, s.event_index, state, outcome)
  /\ req' = [req EXCEPT ![r] = Done(kind, req[r].b, HttpOk, TRUE)]
  /\ UNCHANGED onchain
  /\ EscrowUnchanged

CreateLock(r) ==
  /\ req[r].kind = "create"
  /\ \E outcome \in TxOutcomes :
       LET res == lock_reservation_escrow_onchain(
                    get_chain_registry(cfg)[req[r].chain_key], req[r].b, outcome)
       IN SettleOnchain(r, "create", "locked", res, outcome)

CreateLockWrite(r) == WriteSettlement(r, "create", "locked")

\* Shadow mode: the placeholder record of a new booking.
CreateShadowWrite(r) ==
  /\ req[r].kind = "create"
  /\ req[r].pc = "shadow_write"
  /\ \E outcome \in WriteOutcomes :
       db' = write_reservation_escrow_shadow_metadata(
               db, req[r].b, get_chain_registry(cfg)[req[r].chain_key],
               ShadowTx(req[r].b), ReservationId(req[r].b), 0, "pending_lock",
               outcome)
  /\ req' = [req EXCEPT ![r] = Done("create", req[r].b, HttpOk, TRUE)]
  /\ UNCHANGED onchain
  /\ EscrowUnchanged

\* The same handler without the test of the feature flag.
StartSettlementIgnoresFlag(r, b, kind) ==
  /\ Free(r)
  /\ LET row == db[b]
         chain == SettlementChain(row)
     IN IF ~Exists(row)
          THEN req' = [req EXCEPT ![r] = Done(kind, b, HttpNotFound, FALSE)]
          ELSE \E applied \in BOOLEAN :
                 req' = [req EXCEPT ![r] =
                   IF ~applied THEN Done(kind, b, HttpUnavailable, FALSE)
                   ELSE IF \/ row.escrow_state # "locked"
                           \/ ~Usable(chain)
                     THEN Done(kind, b, HttpOk, TRUE)
                   ELSE [IdleReq EXCEPT !.kind = kind, !.b = b, !.applied = TRUE,
                           !.chain_key = chain.key, !.row = row, !.pc = "settle"]]
  /\ UNCHANGED <<db, onchain>>
  /\ EscrowUnchanged

\* The same handler without the test of the row's escrow state.
StartSettlementAnyState(r, b, kind) ==
  /\ Free(r)
  /\ LET row == db[b]
         chain == SettlementChain(row)
     IN IF ~Exists(row)
          THEN req' = [req EXCEPT ![r] = Done(kind, b, HttpNotFound, FALSE)]
          ELSE \E applied \in BOOLEAN :
                 req' = [req EXCEPT ![r] =
                   IF ~applied THEN Done(kind, b, HttpUnavailable, FALSE)
                   ELSE IF \/ ~cfg.feature_escrow_onchain_lock
                           \/ ~Usable(chain)
                     THEN Done(kind, b, HttpOk, TRUE)
                   ELSE [IdleReq EXCEPT !.kind = kind, !.b = b, !.applied = TRUE,
                           !.chain_key = chain.key, !.row = row, !.pc = "settle"]]
  /\ UNCHANGED <<db, onchain>>
  /\ EscrowUnchanged

\* perform_checkin / cancel_reservation / patch_reservation_status up to the
\* first call of the release or refund that leaves the process: the row is
\* read, the booking operation is carried out, and the guards of
\* _maybe_release_escrow_on_checkin / _maybe_refund_escrow_on_cancel are
\* evaluated on the row as it was read.
StartSettlement(r, b, kind) ==
  /\ Free(r)
  /\ LET row == db[b]
         chain == SettlementChain(row)
     IN IF ~Exists(row)
          THEN req' = [req EXCEPT ![r] = Done(kind, b, HttpNotFound, FALSE)]
          ELSE \E applied \in BOOLEAN :
                 req' = [req EXCEPT ![r] =
                   IF ~applied THEN Done(kind, b, HttpUnavailable, FALSE)
                   ELSE IF \/ ~cfg.feature_escrow_onchain_lock
                           \/ row.escrow_state # "locked"
                           \/ ~Usable(chain)
                     THEN Done(kind, b, HttpOk, TRUE)
                   ELSE [IdleReq EXCEPT !.kind = kind, !.b = b, !.applied = TRUE,
                           !.chain_key = chain.key, !.row = row, !.pc = "settle"]]
  /\ UNCHANGED <<db, onchain>>
  /\ EscrowUnchanged

StartCheckin(r, b) == StartSettlement(r, b, "checkin")

CheckinRelease(r) ==
  /\ req[r].kind = "checkin"
  /\ \E outcome \in TxOutcomes :
       LET res == release_reservation_escrow_onchain(
                    get_chain_registry(cfg)[req[r].chain_key], req[r].b,
                    req[r].row.onchain_booking_id, outcome)
       IN SettleOnchain(r, "checkin", "released", res, outcome)

CheckinReleaseWrite(r) == WriteSettlement(r, "checkin", "released")

StartCancel(r, b) == StartSettlement(r, b, "cancel")

CancelRefund(r) ==
  /\ req[r].kind = "cancel"
  /\ \E outcome \in TxOutcomes :
       LET res == refund_reservation_escrow_onchain(
                    get_chain_registry(cfg)[req[r].chain_key], req[r].b,
                    req[r].row.onchain_booking_id, outcome)
       IN SettleOnchain(r, "cancel", "refunded", res, outcome)

CancelRefundWrite(r) == WriteSettlement(r, "cancel", "refunded")

\* cleanup_shadow_rows up to its first clear: the chain key is resolved and
\* the candidates are listed.
CleanupKeys == {"", "amoy", "mainnet"}
StartCleanup(r) ==
  /\ Free(r)
  /\ \E key \in CleanupKeys :
       LET resolved_key == IF key = "" THEN get_active_chain(cfg).key ELSE key
       IN IF resolved_key \notin DOMAIN get_chain_registry(cfg)
            THEN req' = [req EXCEPT ![r] = Done("cleanup", 0, HttpBadRequest, FALSE)]
            ELSE \/ req' = [req EXCEPT ![r] = Done("cleanup", 0, HttpUnavailable, FALSE)]
                 \/ \E limit \in 1..MaxLimit, execute \in BOOLEAN :
                      LET candidates ==
                            list_reservations_for_shadow_cleanup(db, resolved_key, limit)
                      IN req' = [req EXCEPT ![r] =
                           IF ~execute \/ candidates = <<>>
                             THEN [Done("cleanup", 0, HttpOk, execute) EXCEPT
                                     !.chain_key = resolved_key,
                                     !.candidate_count = Len(candidates)]
                           ELSE [IdleReq EXCEPT !.kind = "cleanup", !.applied = TRUE,
                                   !.chain_key = resolved_key,
                                   !.candidate_count = Len(candidates),
                                   !.cands = candidates, !.pc = "clear_update"]]
  /\ UNCHANGED <<db, onchain>>
  /\ EscrowUnchanged

\* One finished call of clear_reservation_shadow_escrow_metadata: the
\* candidate, the row the guarded UPDATE met, the row read back and the
\* value the route took for cleaned.
ClearCall(c, attempt, seen, cleaned) ==
  [reservation_id |-> c.reservation_id, expected_tx_hash |-> c.chain_tx_hash,
   attempt |-> attempt, seen |-> seen, cleaned |-> cleaned]
\* A loop that ends at the first clear call that did not clean its row.
AfterClearStopsOnFailure(q, call) ==
  [q EXCEPT !.last_call = call,
            !.cleaned = IF call.cleaned THEN Append(q.cleaned, call.reservation_id)
                        ELSE q.cleaned,
            !.cands = IF call.cleaned THEN Tail(q.cands) ELSE <<>>,
            !.attempt = NoRow,
            !.pc = IF Tail(q.cands) = <<>> \/ ~call.cleaned THEN "done" ELSE "clear_update",
            !.status = IF Tail(q.cands) = <<>> \/ ~call.cleaned THEN HttpOk ELSE 0]

\* The loop of cleanup_shadow_rows after a clear call.
AfterClear(q, call) ==
  [q EXCEPT !.last_call = call,
            !.cleaned = IF call.cleaned THEN Append(q.cleaned, call.reservation_id)
                        ELSE q.cleaned,
            !.cands = Tail(q.cands),
            !.attempt = NoRow,
            !.pc = IF Tail(q.cands) = <<>> THEN "done" ELSE "clear_update",
            !.status = IF Tail(q.cands) = <<>> THEN HttpOk ELSE 0]

\* The guarded UPDATE for the next candidate; a store failure makes the
\* route take cleaned = False and go on.
ClearUpdate(r) ==
  /\ req[r].kind = "cleanup"
  /\ req[r].pc = "clear_update"
  /\ \E storeOk \in BOOLEAN :
       LET c == Head(req[r].cands)
       IN IF storeOk
            THEN /\ db' = ClearGuardedUpdate(db, c.reservation_id, req[r].chain_key,
                                             c.chain_tx_hash)
                 /\ req' = [req EXCEPT ![r] = [req[r] EXCEPT
                              !.pc = "clear_verify", !.attempt = db[c.reservation_id]]]
            ELSE /\ db' = db
                 /\ req' = [req EXCEPT ![r] =
                              AfterClear(req[r], ClearCall(c, NoRow, NoRow, FALSE))]
  /\ UNCHANGED onchain
  /\ EscrowUnchanged

\* The read-back of the row and the value returned for it.
ClearVerify(r) ==
  /\ req[r].kind = "cleanup"
  /\ req[r].pc = "clear_verify"
  /\ \E storeOk \in BOOLEAN :
       LET c == Head(req[r].cands)
           seen == IF storeOk THEN db[c.reservation_id] ELSE NoRow
       IN req' = [req EXCEPT ![r] =
            AfterClear(req[r], ClearCall(c, req[r].attempt, seen,
                                         storeOk /\ ClearVerified(seen)))]
  /\ UNCHANGED <<db, onchain>>
  /\ EscrowUnchanged

\* Shadow mode is on and nothing has been booked.
InitEscrow ==
  /\ cfg = BaseCfg
  /\ db = [b \in Bookings |-> NoRow]
  /\ onchain = [b \in Bookings |-> 0]
  /\ readFault = [b \in Bookings |-> "ok"]
  /\ recon = NoRecon
  /\ mon = NewMonitorState(BaseCfg)
  /\ clock = 0
  /\ app = "started"
  /\ loop = "off"
  /\ runner = [t \in Runners |-> IdleRunner]
  /\ hist = [begun |-> 0, succeeded |-> 0, failed |-> 0]
  /\ lastSnapshot = Null
  /\ req = [r \in Requests |-> IdleReq]
  /\ chainView = Null

\* The staged rollout: on-chain locking is switched on at some point.
EnableOnchainLock ==
  /\ ~cfg.feature_escrow_onchain_lock
  /\ cfg' = [cfg EXCEPT !.feature_escrow_onchain_lock = TRUE]
  /\ UNCHANGED <<db, onchain, readFault, recon, req, chainView>>
  /\ UNCHANGED monitorVars

NextEscrow ==
  \/ EnableOnchainLock
  \/ \E r \in Requests :
       \/ \E b \in Bookings : StartCreate(r, b) \/ StartCheckin(r, b) \/ StartCancel(r, b)
       \/ CreateLock(r) \/ CreateLockWrite(r) \/ CreateShadowWrite(r)
       \/ CheckinRelease(r) \/ CheckinReleaseWrite(r)
       \/ CancelRefund(r) \/ CancelRefundWrite(r)
       \/ StartCleanup(r) \/ ClearUpdate(r) \/ ClearVerify(r)

SpecEscrow == InitEscrow /\ [][NextEscrow]_vars

(***************************************************************************)
(* SpecCleanup: cleanup requests on a store that holds shadow records,     *)
(* next to a process that settles shadow bookings while they run.          *)
(***************************************************************************)
\* The rows a store starts with: no escrow data, a shadow record of either
\* chain, a locked record, and a pending_lock record whose hash is a chain
\* hash (the row the like "shadow-%" filter is there to leave out).
CleanupRows(b) ==
  {EmptyRow, ShadowRow("sepolia", b), ShadowRow("amoy", b),
   SettledRow("locked", "sepolia", b), SettledRow("pending_lock", "sepolia", b)}

InitCleanup ==
  /\ cfg = BaseCfg
  /\ db \in {f \in [Bookings -> UNION {CleanupRows(b) : b \in Bookings}] :
               \A b \in Bookings : f[b] \in CleanupRows(b)}
  /\ onchain = [b \in Bookings |-> IF db[b].escrow_state = "locked" THEN 1 ELSE 0]
  /\ readFault = [b \in Bookings |-> "ok"]
  /\ recon = NoRecon
  /\ mon = NewMonitorState(BaseCfg)
  /\ clock = 0
  /\ app = "started"
  /\ loop = "off"
  /\ runner = [t \in Runners |-> IdleRunner]
  /\ hist = [begun |-> 0, succeeded |-> 0, failed |-> 0]
  /\ lastSnapshot = Null
  /\ req = [r \in Requests |-> IdleReq]
  /\ chainView = Null

\* Another process writes the escrow columns of a shadow booking with
\* write_reservation_escrow_shadow_metadata: the lock it made on chain, or
\* a new placeholder.
ConcurrentWrite(b) ==
  /\ Exists(db[b])
  /\ db[b].escrow_state = "pending_lock"
  /\ \E locked \in BOOLEAN :
       LET chain == get_chain_registry(cfg)[Val(db[b].chain_key)]
       IN db' = IF locked
                  THEN write_reservation_escrow_shadow_metadata(
                         db, b, chain, ChainTx("locked", b), KeccakId(b), 1,
                         "locked", "ok")
                  ELSE write_reservation_escrow_shadow_metadata(
                         db, b, chain, <<ShadowPrefix, "uuid4 of a retry", b>>,
                         ReservationId(b), 0, "pending_lock", "ok")
  /\ onchain' = onchain
  /\ UNCHANGED req
  /\ EscrowUnchanged

NextCleanup ==
  \/ \E r \in Requests : StartCleanup(r) \/ ClearUpdate(r) \/ ClearVerify(r)
  \/ \E b \in Bookings : ConcurrentWrite(b)

SpecCleanup == InitCleanup /\ [][NextCleanup]_vars

(***************************************************************************)
(* Properties of the reconciliation (checked under SpecRecon).             *)
(***************************************************************************)
\* The reconciliation of the state reached a summary.
ReconSummarised == recon.via # "none" /\ recon.out.kind = "summary"

\* The summaries of the state: the one returned and the one the monitor kept.
Summaries ==
  (IF ReconSummarised THEN {recon.out.summary} ELSE {}) \cup mon.last_summary

\* The reconciliation of the state got as far as its batch: it named an
\* enabled chain of the registry and the store answered.
ReconReachedBatch ==
  /\ recon.via # "none"
  /\ recon.chain_key \in DOMAIN get_chain_registry(cfg)
  /\ get_chain_registry(cfg)[recon.chain_key].enabled
  /\ recon.storeOk

\* The page it fetched, and what the Record Reader answers for a row of it.
ReconPage ==
  list_reservations_for_escrow_reconciliation(db, recon.chain_key, recon.limit,
                                              recon.offset).rows
ReconRead(row) ==
  read_escrow_record_onchain(get_chain_registry(cfg)[recon.chain_key], row.reservation_id,
                             row.onchain_booking_id, onchain, readFault)

Counted(summary) ==
  summary.match + summary.mismatch + summary.missing_onchain + summary.skipped

\* C1: in every summary computed, by the engine run or by the listing
\* endpoint, match + mismatch + missingOnchain + skipped equals total.
C1_CountsSumToTotal ==
  \A sm \in Summaries : Counted(sm) = sm.total

\* C2: every summary computed (returned by the engine, returned by the
\* endpoint, kept as the monitor's lastSummary) has
\* alert = (mismatch + missingOnchain > 0); skipped alone never sets it.
C2_AlertIffMismatchOrMissing ==
  \A sm \in Summaries :
    /\ sm.alert = (sm.mismatch + sm.missing_onchain > 0)
    /\ (sm.mismatch = 0 /\ sm.missing_onchain = 0) => ~sm.alert

\* A run whose only findings are skipped candidates: the summary the
\* monitor kept counts them and carries no alert.
C2_Witness ==
  /\ recon.via = "engine"
  /\ ReconSummarised
  /\ mon.last_summary = Some(recon.out.summary)
  /\ recon.out.summary.skipped > 0
  /\ recon.out.summary.mismatch + recon.out.summary.missing_onchain = 0
  /\ ~recon.out.summary.alert

\* C4: when the Record Reader fails on a booking of the batch, for any
\* reason, the booking is counted skipped and the batch goes on: the
\* reconciliation ends with a summary (the run is a success) whose skipped
\* count is the number of fetched bookings whose read failed.
C4_ReadFailureSkipsAndContinues ==
  ReconReachedBatch =>
    /\ recon.out.kind = "summary"
    /\ recon.out.summary.skipped =
         Cardinality({i \in DOMAIN ReconPage : Raised(ReconRead(ReconPage[i]))})
    /\ recon.via = "engine" => mon.consecutive_failures = 0

\* The rule of the claim, stated on its own.
C5_Rule(local, chain_state) ==
  IF chain_state = "none" THEN "missing_onchain"
  ELSE IF local = chain_state THEN "match"
  ELSE "mismatch"

C5_RowsClassified(page, reads, result) ==
  {i \in DOMAIN page :
     /\ reads[i].kind = "ok"
     /\ C5_Rule(page[i].escrow_state, reads[i].state) = result}

\* C5: each candidate whose read succeeds is classified missing_onchain
\* when the chain state is none, else match when the states are equal, else
\* mismatch, and exactly one counter is incremented per candidate.
C5_ClassificationRule ==
  ReconSummarised =>
    LET page == ReconPage
        reads == [i \in DOMAIN page |-> ReconRead(page[i])]
        summary == recon.out.summary
    IN /\ summary.missing_onchain = Cardinality(C5_RowsClassified(page, reads, "missing_onchain"))
       /\ summary.match = Cardinality(C5_RowsClassified(page, reads, "match"))
       /\ summary.mismatch = Cardinality(C5_RowsClassified(page, reads, "mismatch"))
       /\ Counted(summary) = Len(page)
       /\ recon.via = "endpoint" =>
            \A i \in DOMAIN page :
              reads[i].kind = "ok" =>
                recon.out.items[i].result = C5_Rule(page[i].escrow_state, reads[i].state)

\* A pending lock the chain has no trace of is counted missing, next to a
\* locked booking the chain agrees with.
C5_Witness ==
  /\ ReconSummarised
  /\ \E i, j \in DOMAIN ReconPage :
       /\ ReconPage[i].escrow_state = "pending_lock"
       /\ ReconRead(ReconPage[i]).kind = "ok" /\ ReconRead(ReconPage[i]).state = "none"
       /\ ReconPage[j].escrow_state = "locked"
       /\ ReconRead(ReconPage[j]).kind = "ok" /\ ReconRead(ReconPage[j]).state = "locked"
  /\ recon.out.summary.missing_onchain = 1
  /\ recon.out.summary.match = 1
  /\ recon.out.summary.alert

(***************************************************************************)
(* Properties of the monitor (checked under Spec).                         *)
(***************************************************************************)
\* Runs in flight: begun (begin_run done) and not yet completed.
InFlight == {t \in Runners : runner[t].pc = "engine"}

\* C3: a manual trigger and a scheduled run are serialized: at most one
\* reconciliation run is in flight in every reachable state.
C3_AtMostOneRunInFlight == Cardinality(InFlight) <= 1

\* C7: once the scheduler loop task has ended (cancelled at shutdown), the
\* run it started is no longer executing and completes nothing any more.
C7_LoopEndsAfterItsRun ==
  loop = "stopped" => runner[SchedRunner].pc \notin {"engine", "completed"}

\* C10: runs_total is 0 at construction and equals the number of completed
\* runs (successes plus failures) in every reachable state; no step
\* decreases it, and the steps of begin_run and snapshot leave it unchanged.
C10_RunsTotalCountsCompletedRuns ==
  /\ [](mon.runs_total = hist.succeeded + hist.failed)
  /\ [][/\ mon'.runs_total >= mon.runs_total
        /\ hist'.begun # hist.begun => mon'.runs_total = mon.runs_total
        /\ lastSnapshot' # lastSnapshot => mon'.runs_total = mon.runs_total]_vars

\* A successful and a failed run have completed, one of them started by the
\* scheduler and one by a manual request that overlapped it.
C10_Witness ==
  /\ mon.runs_total = 2
  /\ hist.succeeded = 1
  /\ hist.failed = 1
  /\ mon.last_started_at # Null /\ mon.last_finished_at # Null
  /\ Val(mon.last_finished_at) - Val(mon.last_started_at) > 1

(***************************************************************************)
(* Properties of the booking requests (checked under SpecEscrow) and of    *)
(* the cleanup (checked under SpecCleanup).                                *)
(***************************************************************************)
\* The clear call each cleanup request has finished last.
ClearCalls == {req[r].last_call : r \in Requests} \ {NoCall}
\* The record's hash was no longer the one discovered when the guarded
\* UPDATE of the call ran.
HashChanged(call) ==
  /\ Exists(call.attempt)
  /\ call.attempt.chain_tx_hash # Some(call.expected_tx_hash)

\* C6: clearShadow returns false whenever another process changed the
\* record's transaction hash between candidate discovery and the clear
\* attempt, for every value the other process may have written.
C6_ClearFalseWhenHashChanged ==
  \A call \in ClearCalls : HashChanged(call) => ~call.cleaned

\* C6 (amended): clearShadow returns false whenever another process changed
\* the record's transaction hash between discovery and the clear attempt
\* and the record still carries a hash when clearShadow reads it back (its
\* own UPDATE matched nothing).  It returns true for a changed hash only
\* when the record read back is in the cleared state, which is what another
\* cleanup leaves.
C6_ClearFalseWhenHashReplaced ==
  \A call \in ClearCalls :
    HashChanged(call) =>
      /\ (Exists(call.seen) /\ ~IsNull(call.seen.chain_tx_hash)) => ~call.cleaned
      /\ call.cleaned => (call.seen.escrow_state = "none"
                            /\ IsNull(call.seen.chain_tx_hash))

\* A clear whose candidate was locked by another process after discovery:
\* the read-back shows the lock and the clear returns false.
C6_Witness ==
  \E call \in ClearCalls :
    /\ HashChanged(call)
    /\ Exists(call.seen)
    /\ call.seen.escrow_state = "locked"
    /\ call.seen.chain_tx_hash = call.attempt.chain_tx_hash
    /\ ~call.cleaned

\* C8: a failure of an escrow side effect (lock at creation, release at
\* check-in, refund at cancellation, or the write of the record) never fails
\* the booking operation that triggered it: the request whose booking
\* operation was carried out is answered successfully.
C8_SideEffectFailureNeverFailsRequest ==
  \A r \in Requests :
    (req[r].pc = "done" /\ req[r].kind \in {"create", "checkin", "cancel"}
       /\ req[r].applied)
      => req[r].status = HttpOk

\* C9: in every reachable state of a booking's record, under any
\* interleaving of creation (shadow write or on-chain lock), check-in
\* release, cancellation refund and shadow cleanup, escrow_state = locked
\* implies that chain_tx_hash and onchain_booking_id are both present.
C9_LockedHasHashAndBookingId ==
  \A b \in Bookings :
    (Exists(db[b]) /\ db[b].escrow_state = "locked")
      => ~IsNull(db[b].chain_tx_hash) /\ ~IsNull(db[b].onchain_booking_id)

\* A booking locked on chain and in the store, while a cleanup has cleared a
\* shadow record and a settlement of a locked booking awaits its write.
C9_Witness ==
  /\ \E b \in Bookings :
       /\ db[b].escrow_state = "locked"
       /\ db[b].chain_tx_hash = Some(ChainTx("locked", b))
       /\ db[b].onchain_booking_id = Some(KeccakId(b))
  /\ \E r \in Requests : req[r].kind = "cleanup" /\ req[r].cleaned # <<>>
  /\ \E r \in Requests : req[r].kind \in {"checkin", "cancel"} /\ req[r].pc = "write"

(***************************************************************************)
(* The monitor's completions (SpecRecon, Spec).                            *)
(***************************************************************************)

\* C11: runOnce never raises: for every outcome of the engine (a summary,
\* an unknown or disabled chain key, a booking-store failure, any exception
\* raised while reconciling) the run ends completed and its caller holds
\* the snapshot of the resulting state; a failure of the engine is what
\* complete_failure recorded (last_error, consecutive_failures, alert).
C11_RunOnceAlwaysReturnsSnapshot ==
  recon.via = "engine" =>
    /\ lastSnapshot = Some(snapshot(mon))
    /\ ~mon.running
    /\ mon.runs_total = 1
    /\ recon.out.kind = "summary" =>
         /\ mon.last_summary = Some(recon.out.summary)
         /\ IsNull(mon.last_error)
         /\ mon.consecutive_failures = 0
    /\ recon.out.kind # "summary" =>
         /\ mon.last_error = Some(recon.out.msg)
         /\ mon.consecutive_failures = 1
         /\ mon.alert_active
         /\ IsNull(mon.last_summary)

\* A run whose engine raised an exception that is not a RuntimeError (a
\* Record Reader call failed inside web3) returned the failure's snapshot.
C11_Witness ==
  /\ recon.via = "engine"
  /\ recon.out.kind = "Exception"
  /\ lastSnapshot # Null
  /\ Val(lastSnapshot).last_error = Some(recon.out.msg)
  /\ ~Val(lastSnapshot).running

\* The step of thread t that completes its run, successfully or not.
CompletesRun(t) == runner[t].pc = "engine" /\ runner'[t].pc = "completed"

\* The summaries the engine can return for the monitor's settings.
EngineSummaries ==
  {out.summary : out \in {o \in {build_summary(resolve_chain_key(cfg), cfg.recon_limit, cfg, db, EnvChain(e), EnvFault(e), TRUE) : e \in RunEnvs} : o.kind = "summary"}}

\* C12: complete_success(duration, summary) sets running = false,
\* last_summary = summary, consecutive_failures = 0, last_error = none and
\* alert_active = (mismatch >= mismatch threshold or missing_onchain >= its
\* threshold or skipped >= its threshold), whatever summary.alert says.
C12_CompleteSuccessFields ==
  [][\A t \in Runners :
       (CompletesRun(t) /\ hist'.succeeded = hist.succeeded + 1) =>
         /\ mon'.last_summary # Null
         /\ Val(mon'.last_summary) \in EngineSummaries
         /\ ~mon'.running
         /\ mon'.consecutive_failures = 0
         /\ IsNull(mon'.last_error)
         /\ mon'.last_success_at = Some(clock)
         /\ mon'.alert_active =
              LET summary == Val(mon'.last_summary)
                  thresholds == mon.alert_thresholds
              IN \/ summary.mismatch >= thresholds.mismatch
                 \/ summary.missing_onchain >= thresholds.missing_onchain
                 \/ summary.skipped >= thresholds.skipped]_vars

\* Thresholds 1/1/1; a run that followed a failed one succeeded with
\* mismatch = 0, missing_onchain = 0, skipped = 2: alert_active is true,
\* the summary's alert is false, and the failure count is back at 0.
C12_Witness ==
  /\ mon.alert_thresholds = [mismatch |-> 1, missing_onchain |-> 1, skipped |-> 1]
  /\ hist.failed = 1 /\ hist.succeeded = 1
  /\ ~mon.running
  /\ mon.consecutive_failures = 0
  /\ IsNull(mon.last_error)
  /\ mon.last_summary # Null
  /\ LET summary == Val(mon.last_summary)
     IN /\ summary.mismatch = 0 /\ summary.missing_onchain = 0 /\ summary.skipped = 2
        /\ ~summary.alert
  /\ mon.alert_active

\* The messages of the exceptions the engine can raise for the monitor's
\* settings, a booking-store failure included.
EngineErrors ==
  {out.msg : out \in {o \in {build_summary(resolve_chain_key(cfg), cfg.recon_limit, cfg, db, EnvChain(e), EnvFault(e), ok) : e \in RunEnvs, ok \in BOOLEAN} : Raised(o)}}

\* C13: complete_failure(duration, error) sets running = false, adds
\* exactly 1 to consecutive_failures, records the error message in
\* last_error and sets alert_active = true whatever the thresholds and the
\* previous summary are; last_summary and last_success_at stay as they were.
C13_CompleteFailureFields ==
  [][\A t \in Runners :
       (CompletesRun(t) /\ hist'.failed = hist.failed + 1) =>
         /\ ~mon'.running
         /\ mon'.consecutive_failures = mon.consecutive_failures + 1
         /\ mon'.last_error # Null
         /\ Val(mon'.last_error) \in EngineErrors
         /\ mon'.alert_active
         /\ mon'.last_summary = mon.last_summary
         /\ mon'.last_success_at = mon.last_success_at
         /\ mon'.alert_thresholds = mon.alert_thresholds]_vars

\* A run failed after a successful one: the failure is counted and shown,
\* the alert is on, and the summary and time of the success are still there.
C13_Witness ==
  /\ hist.succeeded = 1 /\ hist.failed = 1
  /\ ~mon.running
  /\ mon.consecutive_failures = 1
  /\ mon.last_error # Null
  /\ mon.alert_active
  /\ mon.last_summary # Null
  /\ mon.last_success_at # Null
  /\ mon.last_finished_at # mon.last_success_at

\* A step of GET /v2/escrow/reconciliation-monitor that shows in the state:
\* a snapshot was handed out and no run moved.
ReadsMonitor == runner' = runner /\ lastSnapshot' # lastSnapshot

\* What a completed run (or the construction) leaves in the state: no
\* failure counted and no error, or failures counted with the error of the
\* last one and the alert on.
CompletedRunResults(s) ==
  \/ s.consecutive_failures = 0 /\ IsNull(s.last_error)
  \/ s.consecutive_failures > 0 /\ ~IsNull(s.last_error) /\ s.alert_active

ScheduledRunPending ==
  runner[SchedRunner].pc \in {"submitted", "engine", "completed", "returned"}

\* C15: runs started by the scheduler loop never overlap one another: while
\* a run of the loop is pending the loop is suspended at its await, a run
\* is handed to the worker only when the previous one has returned and the
\* sleep that followed it is over (or at startup), and startup creates the
\* scheduler task at most once.
C15_ScheduledRunsNeverOverlap ==
  /\ []((ScheduledRunPending /\ loop # "stopped") => loop = "awaiting_run")
  /\ [](loop = "sleeping" => runner[SchedRunner].pc = "idle")
  /\ [][(runner'[SchedRunner].pc = "submitted" /\ runner[SchedRunner].pc # "submitted") =>
          /\ runner[SchedRunner].pc = "idle"
          /\ \/ loop = "sleeping"
             \/ loop = "off" /\ app = "init" /\ hist.begun = 0]_vars
  /\ [][(loop = "off" /\ loop' # "off") => (app = "init" /\ app' = "started")]_vars
  /\ [][app # "init" => app' # "init"]_vars

\* The loop sleeps its interval after its first run has completed and
\* returned its snapshot; no run is pending.
C15_Witness ==
  /\ loop = "sleeping"
  /\ hist.begun = 1
  /\ mon.runs_total = 1
  /\ ~mon.running
  /\ lastSnapshot = Some(mon)
  /\ \A t \in Runners : runner[t].pc = "idle"

(***************************************************************************)
(* Chain resolution of a reconciliation (SpecRecon).                       *)
(***************************************************************************)

\* The reconciliation of the state named a key that is not in the registry
\* or a chain that is not enabled.
ReconRefusedChain ==
  /\ recon.via # "none"
  /\ \/ recon.chain_key \notin DOMAIN get_chain_registry(cfg)
     \/ ~get_chain_registry(cfg)[recon.chain_key].enabled

\* C16: reconcile(chainKey, limit) fails at once when chainKey is not in
\* the registry or names a disabled chain: the engine raises the
\* configuration error and the listing endpoint answers 400, with no
\* summary, whatever the booking store and the Record Reader would have
\* answered (a failing store, a failing read); with sepolia alone allowed
\* and active, get_active_chain is sepolia and amoy is "disabled".
C16_UnknownOrDisabledChainFailsFirst ==
  /\ ReconRefusedChain =>
       /\ recon.via = "engine" =>
            /\ recon.out = Raise("RuntimeError",
                                 IF recon.chain_key \notin DOMAIN get_chain_registry(cfg)
                                   THEN "unsupported chain_key" ELSE "chain is disabled")
            /\ IsNull(mon.last_summary)
            /\ mon.last_error = Some(recon.out.msg)
       /\ recon.via = "endpoint" =>
            recon.out = [kind |-> "http", status |-> HttpBadRequest]
  /\ (cfg.allowed = {"sepolia"} /\ cfg.active = "sepolia") =>
       /\ get_active_chain(cfg).key = "sepolia"
       /\ get_active_chain(cfg).enabled
       /\ (recon.via = "engine" /\ recon.chain_key = "amoy") =>
            recon.out = Raise("RuntimeError", "chain is disabled")

\* Registry {sepolia: enabled, amoy: disabled}, active key sepolia: the
\* engine was asked for amoy while the store was failing and a Record
\* Reader call would have failed, and raised "chain is disabled".
C16_Witness ==
  /\ cfg.allowed = {"sepolia"} /\ cfg.active = "sepolia"
  /\ recon.via = "engine"
  /\ recon.chain_key = "amoy"
  /\ ~recon.storeOk
  /\ \E b \in Bookings : readFault[b] # "ok"
  /\ recon.out = Raise("RuntimeError", "chain is disabled")
  /\ get_active_chain(cfg).key = "sepolia"

(***************************************************************************)
(* Shadow cleanup: discovery and clearing (SpecCleanup).                   *)
(***************************************************************************)

\* The bookings of a store that are on the chain, in state pending_lock,
\* with a transaction hash that starts with the shadow prefix.
StaleShadowBookings(store, chain_key) ==
  {b \in Bookings :
     /\ store[b] # NoRow
     /\ store[b].chain_key = {chain_key}
     /\ store[b].escrow_state = "pending_lock"
     /\ \E h \in store[b].chain_tx_hash : h[1] = ShadowPrefix}

\* The step of request r that runs the discovery of POST cleanup-shadow.
Discovers(r) == req[r].kind # "cleanup" /\ req'[r].kind = "cleanup" /\ req'[r].status # HttpBadRequest /\ req'[r].status # HttpUnavailable

\* C17: the discovery returns only bookings that are on the given chain,
\* in state exactly pending_lock, with a transaction hash starting with the
\* shadow prefix, each with the hash it carries; a pending_lock row whose
\* hash lacks the prefix is never returned, whatever the store holds.
C17_CandidatesAreShadowRowsOnly ==
  [][\A r \in Requests :
       Discovers(r) =>
         LET stale == StaleShadowBookings(db, req'[r].chain_key)
             cands == req'[r].cands
         IN /\ req'[r].candidate_count <= Cardinality(stale)
            /\ (stale # {}) = (req'[r].candidate_count > 0)
            /\ cands # <<>> => Len(cands) = req'[r].candidate_count
            /\ \A i \in DOMAIN cands :
                 /\ cands[i].reservation_id \in stale
                 /\ db[cands[i].reservation_id].chain_tx_hash = {cands[i].chain_tx_hash}
            /\ \A i, j \in DOMAIN cands :
                 cands[i].reservation_id = cands[j].reservation_id => i = j]_vars

\* A cleanup discovered one candidate, the shadow row, in a store whose
\* other booking is a pending_lock row of the same chain with a hash that
\* lacks the prefix.
C17_Witness ==
  \E r \in Requests, b \in Bookings :
    /\ req[r].kind = "cleanup"
    /\ req[r].pc = "clear_update"
    /\ req[r].chain_key = "sepolia"
    /\ req[r].candidate_count = 1
    /\ Len(req[r].cands) = 1
    /\ req[r].cands[1].reservation_id # b
    /\ db[req[r].cands[1].reservation_id] = ShadowRow("sepolia", req[r].cands[1].reservation_id)
    /\ db[b] = SettledRow("pending_lock", "sepolia", b)

\* The step of request r that runs the guarded UPDATE of a clear call.
ClearWrites(r) ==
  req[r].kind = "cleanup" /\ req[r].pc = "clear_update" /\ req'[r] # req[r]

\* C18: clearShadow(bookingRef, chainKey, expectedTxHash) changes the escrow
\* fields of a booking only if, when its write runs, the record's chain key
\* is chainKey, its state is pending_lock and its hash is expectedTxHash,
\* and then it clears them all; in every other case (record settled or
\* rewritten meanwhile, record already cleared) the record stays as it is,
\* and no other booking's record is touched.
C18_ClearWritesOnlyTheMatchingRecord ==
  [][\A r \in Requests :
       ClearWrites(r) =>
         LET c == Head(req[r].cands)
             b == c.reservation_id
             matches == /\ db[b] # NoRow
                        /\ db[b].chain_key = {req[r].chain_key}
                        /\ db[b].escrow_state = "pending_lock"
                        /\ db[b].chain_tx_hash = {c.chain_tx_hash}
         IN /\ \A o \in Bookings \ {b} : db'[o] = db[o]
            /\ ~matches => db'[b] = db[b]
            /\ db'[b] # db[b] =>
                 /\ matches
                 /\ db'[b] = Row("none", {}, {}, {}, {}, {}, {})
            /\ onchain' = onchain]_vars

\* A clear call met a record that another process had locked after the
\* discovery, and the record is still as that process wrote it.
C18_Witness ==
  \E call \in ClearCalls :
    /\ call.attempt # NoRow
    /\ call.attempt.escrow_state = "locked"
    /\ call.attempt.chain_tx_hash # {call.expected_tx_hash}
    /\ db[call.reservation_id] = call.attempt
    /\ \E o \in Bookings \ {call.reservation_id} : db[o] # NoRow /\ db[o].escrow_state = "pending_lock"

\* The record a clear call read back is in the cleared state: state none
\* and none of the six chain fields left.
ReadBackCleared(call) ==
  /\ call.seen # NoRow
  /\ call.seen.escrow_state = "none"
  /\ call.seen.chain_key = {} /\ call.seen.chain_id = {}
  /\ call.seen.escrow_contract_address = {} /\ call.seen.chain_tx_hash = {}
  /\ call.seen.onchain_booking_id = {} /\ call.seen.escrow_event_index = {}

\* The guarded UPDATE of a clear call matched the record it met.
WriteTookEffect(call) ==
  /\ call.attempt # NoRow
  /\ call.attempt.escrow_state = "pending_lock"
  /\ call.attempt.chain_tx_hash = {call.expected_tx_hash}

\* C19 as stated: clearShadow returns true iff the record has state none
\* and no chain field left after its write, and false when the record is
\* missing or its guarded write did not take effect.
C19_ClearTrueIffWriteCleared ==
  \A call \in ClearCalls :
    /\ call.cleaned = ReadBackCleared(call)
    /\ ~WriteTookEffect(call) => ~call.cleaned

\* C19 (amended): clearShadow returns true iff the record it reads back
\* after its write has state none and no chain field left, whoever cleared
\* it; it returns false when no record is read back, and when its write
\* did not take effect and the record read back still holds escrow data.
C19_ClearTrueIffReadBackCleared ==
  \A call \in ClearCalls :
    /\ call.cleaned = ReadBackCleared(call)
    /\ call.seen = NoRow => ~call.cleaned
    /\ (~WriteTookEffect(call) /\ call.seen # NoRow /\ call.seen.escrow_state # "none")
         => ~call.cleaned
    /\ WriteTookEffect(call) /\ call.seen # NoRow => call.cleaned

\* Two cleanups discovered the same shadow record; the UPDATE of this call
\* met the record already cleared by the other, its read-back found the
\* cleared state, and it returned true.
C19_Witness ==
  \E call \in ClearCalls :
    /\ call.attempt = EmptyRow
    /\ ~WriteTookEffect(call)
    /\ ReadBackCleared(call)
    /\ call.cleaned

(***************************************************************************)
(* Errors of the chain client (SpecEscrow).                                *)
(***************************************************************************)

\* What the lock, release or refund that request r is about to call gives
\* back or raises for an outcome of the chain.
SettlementCall(r, outcome) ==
  LET chain == get_chain_registry(cfg)[req[r].chain_key]
  IN CASE req[r].kind = "create" ->
            lock_reservation_escrow_onchain(chain, req[r].b, outcome)
       [] req[r].kind = "checkin" ->
            release_reservation_escrow_onchain(chain, req[r].b,
                                               req[r].row.onchain_booking_id, outcome)
       [] OTHER ->
            refund_reservation_escrow_onchain(chain, req[r].b,
                                              req[r].row.onchain_booking_id, outcome)

\* C20: every failure of lock, release or refund (missing dependency,
\* missing configuration, unreachable RPC, transaction submission failure,
\* receipt-wait timeout, reverted transaction) reaches the caller as one
\* and the same error kind, RuntimeError, told apart by its message only.
C20_FailuresSurfaceAsOneErrorKind ==
  \A r \in Requests :
    (req[r].pc = "settle" /\ req[r].kind \in {"create", "checkin", "cancel"}) =>
      \A outcome \in TxOutcomes :
        Raised(SettlementCall(r, outcome)) =>
          SettlementCall(r, outcome).kind = "RuntimeError"

(***************************************************************************)
(* SpecChains: the chain registry and the active chain, for every          *)
(* configuration of CHAIN_ACTIVE_KEY and CHAIN_ALLOWED_KEYS, as the two    *)
(* endpoints that publish them show them.                                  *)
(***************************************************************************)

\* CHAIN_ACTIVE_KEY after strip().lower(): a key of the registry, a key
\* that is not in it, or blank.
ActiveKeys == ChainKeys \cup {"mainnet", ""}

ChainCfgs ==
  {[BaseCfg EXCEPT !.active = a, !.allowed = al,
                   !.rpc = [k \in ChainKeys |-> IF k \in urls THEN "https://rpc" ELSE ""]] :
     a \in ActiveKeys, al \in SUBSET ChainKeys, urls \in SUBSET ChainKeys}

\* The "active_chain" and "chains" entries of the payloads.
chain_overview(c) ==
  LET active_chain == get_active_chain(c)
      registry == get_chain_registry(c)
  IN [active_chain |-> [key |-> active_chain.key,
                        chain_id |-> active_chain.chain_id,
                        rpc_configured |-> active_chain.rpc_url # "",
                        contract_configured |-> active_chain.escrow_contract_address # ""],
      chains |-> [k \in DOMAIN registry |->
                    [chain_id |-> registry[k].chain_id,
                     enabled |-> registry[k].enabled,
                     rpc_configured |-> registry[k].rpc_url # "",
                     contract_configured |-> registry[k].escrow_contract_address # ""]]]

InitChains ==
  /\ cfg \in ChainCfgs
  /\ db = [b \in Bookings |-> EmptyRow]
  /\ onchain = [b \in Bookings |-> 0]
  /\ readFault = [b \in Bookings |-> "ok"]
  /\ recon = NoRecon
  /\ mon = NewMonitorState(cfg)
  /\ clock = 0
  /\ app = "started"
  /\ loop = "off"
  /\ runner = [t \in Runners |-> IdleRunner]
  /\ hist = [begun |-> 0, succeeded |-> 0, failed |-> 0]
  /\ lastSnapshot = Null
  /\ req = [r \in Requests |-> IdleReq]
  /\ chainView = Null

\* GET /v2/chains
get_chain_configuration ==
  /\ chainView' = Some([via |-> "chains"] @@ chain_overview(cfg))
  /\ UNCHANGED <<cfg, db, onchain, readFault, recon, req>>
  /\ UNCHANGED monitorVars

\* GET /health
health ==
  /\ LET monitor == snapshot(mon)
     IN chainView' = Some([via |-> "health",
                           escrow_reconciliation_monitor |->
                             [running |-> monitor.running,
                              last_success_at |-> monitor.last_success_at,
                              alert_active |-> monitor.alert_active]]
                          @@ chain_overview(cfg))
  /\ UNCHANGED <<cfg, db, onchain, readFault, recon, req>>
  /\ UNCHANGED monitorVars

NextChains == get_chain_configuration \/ health

SpecChains == InitChains /\ [][NextChains]_vars

\* The first enabled network of an overview, in the registry's order.
FirstEnabled(view) == IF view.chains["sepolia"].enabled THEN "sepolia" ELSE "amoy"

\* C21: get_active_chain returns the network whose key is the configured
\* active key when that key is in the registry, and the first enabled
\* network when the configured key is invalid (and a network is enabled).
C21_ActiveChainIsConfiguredOrFirstEnabled ==
  chainView # Null =>
    LET view == Val(chainView)
    IN /\ cfg.active \in DOMAIN view.chains => view.active_chain.key = cfg.active
       /\ (cfg.active \notin DOMAIN view.chains /\ \E k \in DOMAIN view.chains : view.chains[k].enabled)
            => /\ view.active_chain.key = FirstEnabled(view)
               /\ view.chains[view.active_chain.key].enabled

(***************************************************************************)
(* Settlement results and the booking's record (SpecEscrow).               *)
(***************************************************************************)

\* The state a handler writes after its call: lock at creation, release at
\* check-in, refund at cancellation.
SettledState(kind) ==
  CASE kind = "create" -> "locked" [] kind = "checkin" -> "released" [] OTHER -> "refunded"

\* The steps of request r: its call returns a result, its write is over.
CallReturns(r) == req[r].pc = "settle" /\ req'[r].pc = "write"
WriteEnds(r) == req[r].pc = "write" /\ req'[r].pc = "done"

\* The record that holds the result s of request r.
RecordOfResult(r, s) ==
  LET chain == get_chain_registry(cfg)[req[r].chain_key]
  IN Row(SettledState(req[r].kind), {chain.key}, {chain.chain_id},
         {chain.escrow_contract_address}, {s.tx_hash}, {s.onchain_booking_id},
         {s.event_index})

\* C22 as stated: after every successful lock, release or refund call the
\* booking's record holds state locked, released or refunded with the
\* result's transaction hash, on-chain booking id and event index.
C22_ResultAlwaysInRecord ==
  [][\A r \in Requests :
       WriteEnds(r) => db'[req[r].b] = RecordOfResult(r, Val(req[r].settlement))]_vars

\* C22 (amended): every successful lock, release or refund call hands its
\* result to the write of the booking's record, and never ends the request
\* without it; the write leaves the record with the state and the result's
\* hash, booking id and event index, unless the store fails the UPDATE, in
\* which case the record stays as it was; the request succeeds either way.
C22_ResultWrittenUnlessStoreFails ==
  [][\A r \in Requests :
       /\ CallReturns(r) =>
            \E outcome \in TxOutcomes :
              /\ SettlementCall(r, outcome).kind = "ok"
              /\ req'[r].settlement = {SettlementCall(r, outcome)}
              /\ req'[r].b = req[r].b /\ req'[r].kind = req[r].kind
       /\ (req[r].pc = "settle" /\ req'[r].pc = "done" /\ req'[r].status = HttpOk)
            => onchain' = onchain
       /\ WriteEnds(r) =>
            /\ \/ db'[req[r].b] = RecordOfResult(r, Val(req[r].settlement))
               \/ db' = db
            /\ \A o \in Bookings \ {req[r].b} : db'[o] = db[o]
            /\ req'[r].status = HttpOk]_vars

\* A check-in released a locked booking: the record holds state released
\* with the release's hash, the booking id and the decoded event index.
C22_Witness ==
  \E r \in Requests, b \in Bookings :
    /\ req[r].kind = "checkin" /\ req[r].pc = "done" /\ req[r].b = b
    /\ req[r].status = HttpOk
    /\ onchain[b] = LedgerAfter("released")
    /\ db[b].escrow_state = "released"
    /\ db[b].chain_tx_hash = {ChainTx("released", b)}
    /\ db[b].onchain_booking_id = {KeccakId(b)}
    /\ db[b].escrow_event_index = {1}

\* C23: for lock, release and refund alike, when the transaction is
\* confirmed with success status and decoding the event from the receipt
\* fails or finds no event, the call raises nothing and returns a result
\* with event_index = 0 and with the transaction hash and the on-chain
\* booking id it would have returned with the event decoded.
C23_UndecodedEventGivesIndexZero ==
  /\ [](\A r \in Requests :
          (req[r].pc = "settle" /\ req[r].kind \in {"create", "checkin", "cancel"}) =>
            LET decoded == SettlementCall(r, "ok")
                undecoded == SettlementCall(r, "ok_undecoded")
            IN /\ undecoded.kind = "ok"
               /\ undecoded.event_index = 0
               /\ undecoded.tx_hash = ChainTx(SettledState(req[r].kind), req[r].b)
               /\ undecoded.onchain_booking_id[1] = HexPrefix
               /\ decoded.kind = "ok"
               /\ undecoded.tx_hash = decoded.tx_hash
               /\ undecoded.onchain_booking_id = decoded.onchain_booking_id)
  /\ [][\A r \in Requests :
          CallReturns(r) =>
            LET s == Val(req'[r].settlement)
            IN /\ s.tx_hash = ChainTx(SettledState(req[r].kind), req[r].b)
               /\ s.onchain_booking_id[1] = HexPrefix
               /\ s.event_index \in {0, 1}
               /\ onchain'[req[r].b] = LedgerAfter(SettledState(req[r].kind))]_vars

\* A lock and a release or refund, each confirmed with its event not
\* decoded, have returned results with event index 0 and await their writes.
C23_Witness ==
  \E r, q \in Requests :
    /\ req[r].kind = "create" /\ req[r].pc = "write"
    /\ req[q].kind \in {"checkin", "cancel"} /\ req[q].pc = "write"
    /\ \A t \in {r, q} :
         /\ Val(req[t].settlement).event_index = 0
         /\ Val(req[t].settlement).tx_hash = ChainTx(SettledState(req[t].kind), req[t].b)
         /\ Val(req[t].settlement).onchain_booking_id = KeccakId(req[t].b)

\* The step of request r that ends a clear call (its UPDATE failed, or its
\* read-back is over).
ClearCallEnds(r) ==
  /\ req[r].kind = "cleanup" /\ req[r].pc \in {"clear_update", "clear_verify"}
  /\ req'[r].last_call # req[r].last_call \/ req'[r].cands # req[r].cands

\* C24: in dry-run mode the cleanup endpoint calls no clear and changes no
\* record, and answers cleaned_count = 0 with candidate_count = the number
\* of candidates; in execute mode an id is added to the cleaned ids exactly
\* when the clear of that candidate returned true, so cleaned_count counts
\* those candidates and the cleaned ids are candidate ids, and the loop goes
\* on to the remaining candidates whatever a clear returned or raised.
C24_DryRunTouchesNothingExecuteCountsCleared ==
  /\ [](\A r \in Requests :
          req[r].kind = "cleanup" =>
            /\ ~req[r].applied =>
                 /\ req[r].pc = "done"
                 /\ req[r].cleaned = <<>> /\ req[r].cands = <<>>
                 /\ req[r].last_call = NoCall
            /\ Len(req[r].cleaned) + Len(req[r].cands) <= req[r].candidate_count
            /\ req[r].pc = "done" => req[r].cands = <<>>)
  /\ [][\A r \in Requests :
          /\ (Discovers(r) /\ ~req'[r].applied) =>
               /\ db' = db
               /\ req'[r].status = HttpOk
               /\ (req'[r].candidate_count > 0)
                    = (StaleShadowBookings(db, req'[r].chain_key) # {})
          /\ ClearCallEnds(r) =>
               LET c == Head(req[r].cands)
                   call == req'[r].last_call
               IN /\ call.reservation_id = c.reservation_id
                  /\ call.expected_tx_hash = c.chain_tx_hash
                  /\ req'[r].cleaned = IF call.cleaned
                                         THEN Append(req[r].cleaned, c.reservation_id)
                                         ELSE req[r].cleaned
                  /\ req'[r].cands = Tail(req[r].cands)
                  /\ req'[r].candidate_count = req[r].candidate_count
                  /\ req'[r].pc = IF Tail(req[r].cands) = <<>> THEN "done" ELSE "clear_update"
                  /\ req'[r].pc = "done" => req'[r].status = HttpOk]_vars

\* An executed cleanup of two candidates is over: the clear of the first
\* did not clean it, the clear of the second did; a dry run that found
\* candidates has answered without a clear call.
C24_Witness ==
  \E r, q \in Requests :
    /\ req[r].kind = "cleanup" /\ req[r].applied /\ req[r].pc = "done"
    /\ req[r].candidate_count = 2
    /\ Len(req[r].cleaned) = 1
    /\ req[r].last_call.cleaned
    /\ req[r].cleaned[1] = req[r].last_call.reservation_id
    /\ req[q].kind = "cleanup" /\ ~req[q].applied /\ req[q].pc = "done"
    /\ req[q].status = HttpOk
    /\ req[q].candidate_count > 0

(***************************************************************************)
(* SpecRerun: the engine run twice in a row on the same chain with the     *)
(* same limit, while nothing else touches the store, the chain or the      *)
(* reader's environment.                                                   *)
(***************************************************************************)

\* The second run: run_escrow_reconciliation_once_now once more, for the
\* key and limit of the first.
EngineReconcileAgain ==
  /\ recon.via = "engine"
  /\ hist.begun = 1
  /\ LET out == build_summary(recon.chain_key, recon.limit, cfg, db, onchain, readFault,
                              recon.storeOk)
     IN /\ mon' = complete_run(begin_run(mon, recon.chain_key, clock), out, 1, clock + 1)
        /\ hist' = IF out.kind = "summary"
                     THEN [hist EXCEPT !.begun = @ + 1, !.succeeded = @ + 1]
                     ELSE [hist EXCEPT !.begun = @ + 1, !.failed = @ + 1]
  /\ clock' = clock + 1
  /\ lastSnapshot' = Some(snapshot(mon'))
  /\ UNCHANGED <<cfg, db, onchain, readFault, recon, app, loop, runner, req, chainView>>

NextRerun == EngineReconcile \/ EngineReconcileAgain

SpecRerun == InitRecon /\ [][NextRerun]_vars

SettledStates == {"locked", "released", "refunded"}

\* C26: a booking's record is set to locked, released or refunded only by
\* the write that follows the corresponding transaction confirmed with
\* success status on chain, with that transaction's hash; when the receipt
\* has another status, or the call fails in any other way, the request ends
\* with every record exactly as it was before the attempt.
C26_RecordSettledOnlyAfterConfirmation ==
  [][/\ \A b \in Bookings :
          (db'[b] # db[b] /\ db'[b].escrow_state \in SettledStates) =>
            \E r \in Requests :
              /\ WriteEnds(r) /\ req[r].b = b
              /\ db'[b].escrow_state = SettledState(req[r].kind)
              /\ onchain[b] = LedgerAfter(db'[b].escrow_state)
              /\ db'[b].chain_tx_hash = {ChainTx(db'[b].escrow_state, b)}
     /\ \A r \in Requests :
          (req[r].pc = "settle" /\ req'[r].pc = "done") => db' = db]_vars

\* A check-in of a locked booking whose release was not confirmed has
\* ended: the record is the locked record the lock wrote, the chain still
\* holds the lock.
C26_Witness ==
  \E r \in Requests, b \in Bookings :
    /\ cfg.feature_escrow_onchain_lock
    /\ req[r].kind = "checkin" /\ req[r].pc = "done" /\ req[r].b = b /\ req[r].applied
    /\ db[b].escrow_state = "locked"
    /\ db[b].chain_tx_hash = {ChainTx("locked", b)}
    /\ onchain[b] = LedgerAfter("locked")
    /\ \A q \in Requests \ {r} : req[q].pc \in {"idle", "done"}

\* The changes of state the handlers make: the shadow write and the
\* on-chain lock of a creation, the cleanup's clear, the release of a
\* check-in and the refund of a cancellation.
HandlerSteps ==
  {<<"none", "pending_lock">>, <<"none", "locked">>, <<"pending_lock", "none">>,
   <<"locked", "released">>, <<"locked", "refunded">>}
\* The state of booking b's record changes in this step (the insertion of
\* the booking, which starts the record in state none, set aside).
StateChanges(b) ==
  /\ Exists(db[b])
  /\ db'[b].escrow_state # db[b].escrow_state

\* C27 (as stated): every change of a booking's escrowState is one step
\* along none -> pending_lock -> locked -> (released | refunded).
C27_StateFollowsTheChain ==
  [][\A b \in Bookings :
       StateChanges(b) =>
         <<db[b].escrow_state, db'[b].escrow_state>> \in
           {<<"none", "pending_lock">>, <<"pending_lock", "locked">>,
            <<"locked", "released">>, <<"locked", "refunded">>}]_vars

\* C27 (amended): every change of a booking's escrowState is none ->
\* pending_lock or none -> locked (creation), pending_lock -> none (shadow
\* cleanup), locked -> released (check-in) or locked -> refunded
\* (cancellation); so released and refunded are reached only from locked,
\* and locked is never left except to released or refunded.
C27_StateFollowsTheHandlers ==
  [][\A b \in Bookings :
       StateChanges(b) =>
         /\ <<db[b].escrow_state, db'[b].escrow_state>> \in HandlerSteps
         /\ db'[b].escrow_state \in {"released", "refunded"} => db[b].escrow_state = "locked"
         /\ db[b].escrow_state = "locked" => db'[b].escrow_state \in {"released", "refunded"}]_vars

\* One booking was shadow-written and cleared by a cleanup, the other was
\* locked on chain and then released or refunded.
C27_Witness ==
  \E b, p \in Bookings, r \in Requests :
    /\ req[r].kind = "cleanup" /\ req[r].pc = "done" /\ Len(req[r].cleaned) = 1
    /\ db[b].escrow_state = "none"
    /\ db[p].escrow_state \in {"released", "refunded"}
    /\ onchain[p] = LedgerAfter(db[p].escrow_state)

(***************************************************************************)
(* SpecSettle: check-ins and cancellations of bookings already in the      *)
(* store, under every combination of the feature flag, the allow-list and  *)
(* a missing setting of sepolia.                                           *)
(***************************************************************************)
MissingSettings == {"nothing", "rpc", "contract", "signer"}
SettleCfgs ==
  {[BaseCfg EXCEPT
      !.feature_escrow_onchain_lock = flag,
      !.allowed = allowed,
      !.rpc = [k \in ChainKeys |->
                 IF missing = "rpc" /\ k = "sepolia" THEN "" ELSE "https://rpc"],
      !.contract = [k \in ChainKeys |->
                 IF missing = "contract" /\ k = "sepolia" THEN "" ELSE "0xcontract"],
      !.signer = [k \in ChainKeys |->
                 IF missing = "signer" /\ k = "sepolia" THEN "" ELSE "0xkey"]] :
     flag \in BOOLEAN, allowed \in {{"sepolia"}, {"amoy"}, ChainKeys},
     missing \in MissingSettings}

\* The rows a booking can hold when it is checked in or cancelled.
SettleRows(b) ==
  {EmptyRow, ShadowRow("sepolia", b),
   SettledRow("locked", "sepolia", b), SettledRow("locked", "amoy", b)}

InitSettle ==
  /\ cfg \in SettleCfgs
  /\ db \in {f \in [Bookings -> UNION {SettleRows(b) : b \in Bookings}] :
               \A b \in Bookings : f[b] \in SettleRows(b)}
  /\ onchain = [b \in Bookings |-> IF db[b].escrow_state = "locked" THEN 1 ELSE 0]
  /\ readFault = [b \in Bookings |-> "ok"]
  /\ recon = NoRecon
  /\ mon = NewMonitorState(BaseCfg)
  /\ clock = 0
  /\ app = "started"
  /\ loop = "off"
  /\ runner = [t \in Runners |-> IdleRunner]
  /\ hist = [begun |-> 0, succeeded |-> 0, failed |-> 0]
  /\ lastSnapshot = Null
  /\ req = [r \in Requests |-> IdleReq]
  /\ chainView = Null

NextSettle ==
  \E r \in Requests :
    \/ \E b \in Bookings : StartCheckin(r, b) \/ StartCancel(r, b)
    \/ CheckinRelease(r) \/ CheckinReleaseWrite(r)
    \/ CancelRefund(r) \/ CancelRefundWrite(r)

SpecSettle == InitSettle /\ [][NextSettle]_vars

\* Request r's handler has carried out the check-in or the cancellation in
\* this step and has evaluated the guards of the release / refund.
HandlerRuns(r) ==
  /\ req[r].pc \in {"idle", "done"}
  /\ req'[r] # req[r]
  /\ req'[r].kind \in {"checkin", "cancel"}
  /\ req'[r].applied
\* The chain of the booking the handler read: enabled, with RPC URL,
\* contract address and signer key.
BookingChainReady(row) ==
  LET chain == get_chain_registry(cfg)[Val(row.chain_key)]
  IN /\ chain.enabled
     /\ chain.rpc_url # ""
     /\ chain.escrow_contract_address # ""
     /\ chain.signer_private_key # ""
SettlementDue(row) ==
  /\ cfg.feature_escrow_onchain_lock
  /\ row.escrow_state = "locked"
  /\ BookingChainReady(row)

\* C28: a check-in (cancellation) goes on to submit the release (refund)
\* exactly when on-chain locking is enabled, the row it read is locked and
\* the row's chain is enabled with RPC URL, contract address and signer key;
\* in every other case the request ends at once with success, and neither
\* the ledger nor any record changes. The ledger and the records change
\* only in the steps of a request that went on to submit.
C28_SettlementOnlyWhenDue ==
  [][/\ \A r \in Requests :
          HandlerRuns(r) =>
            /\ req'[r].pc = "settle" <=> SettlementDue(db[req'[r].b])
            /\ ~SettlementDue(db[req'[r].b]) =>
                 /\ req'[r].pc = "done" /\ req'[r].status = HttpOk
                 /\ db' = db /\ onchain' = onchain
     /\ (db' # db \/ onchain' # onchain) =>
          \E r \in Requests :
            /\ req[r].pc \in {"settle", "write"}
            /\ req'[r] # req[r]
            /\ SettlementDue(req[r].row)]_vars

\* A check-in of a locked booking whose chain lacks a setting, or is not
\* allowed, has ended with success while a cancellation of the other
\* booking, whose chain is ready, has been refunded.
C28_Witness ==
  \E r, q \in Requests :
    /\ cfg.feature_escrow_onchain_lock
    /\ req[r].kind = "checkin" /\ req[r].pc = "done" /\ req[r].status = HttpOk
    /\ db[req[r].b].escrow_state = "locked" /\ onchain[req[r].b] = 1
    /\ ~BookingChainReady(db[req[r].b])
    /\ req[q].kind = "cancel" /\ req[q].pc = "done"
    /\ db[req[q].b].escrow_state = "refunded" /\ onchain[req[q].b] = 3

\* C29: running is accurate in every reachable state, also when a manual
\* and a scheduled run interleave: running is true if and only if at least
\* one run has begun (begin_run) and has not yet completed
\* (complete_success / complete_failure).
C29_RunningIffARunIsInFlight ==
  mon.running <=> hist.begun > hist.succeeded + hist.failed

\* C30: in every reachable MonitorState, and in every snapshot returned,
\* last_error is set only if consecutive_failures > 0, consecutive_failures
\* > 0 implies alert_active, consecutive_failures <= runs_total, and
\* last_summary is present if and only if last_success_at is present.
C30_MonitorStateIsConsistent ==
  \A m \in {mon} \cup lastSnapshot :
    /\ m.last_error # Null => m.consecutive_failures > 0
    /\ m.consecutive_failures > 0 => m.alert_active
    /\ m.consecutive_failures <= m.runs_total
    /\ m.last_summary # Null <=> m.last_success_at # Null

\* Two overlapping runs have completed, the first with a summary and the
\* second with a failure, and the snapshot of that state was returned.
C30_Witness ==
  /\ hist.succeeded = 1 /\ hist.failed = 1
  /\ mon.last_error # Null /\ mon.consecutive_failures = 1 /\ mon.alert_active
  /\ mon.last_summary # Null /\ mon.last_success_at # Null
  /\ mon.runs_total = 2
  /\ Val(mon.last_finished_at) - Val(mon.last_started_at) > 1
  /\ lastSnapshot = Some(mon)

====
